---- MODULE Spec2Model ----
(***************************************************************************)
(* VersionFS: the versioning engine (VersionFSClient) over the Walrus blob *)
(* store (WalrusService) and the Sui ledger (SuiService).                  *)
(*                                                                         *)
(* Two clients exist in the repository.  The browser client               *)
(* (VC_frontend/src/versionFSClient.ts, impl "frontend") runs on the       *)
(* wallet-based SuiService (versionfs/src/services/suiService.ts).  The    *)
(* Node client (versionfs/src/versionFSClient.ts, impl "node") was written *)
(* against the key-pair SuiService (unnamed/part_005), whose constructor   *)
(* and createRepository signature it uses.  Each engine of the model runs  *)
(* one of the two.                                                         *)
(*                                                                         *)
(* Every await of a handler is a step of the model: an engine's pc says    *)
(* at which await its running call stands.                                 *)
(***************************************************************************)
EXTENDS Integers, Sequences, FiniteSets, TLC

VARIABLES
    impl,       \* engine -> "frontend" | "node"
    repoId,     \* engine -> this.repoId   (NoId: undefined)
    capId,      \* engine -> this.capId    (NoId: undefined)
    pc,         \* engine -> the await its running call stands at
    op,         \* engine -> the running (or last) call ("read": one of
                \*   the calls that only read)
    call,       \* engine -> arguments and locals of the running call:
                \*   files, message, branch, uploadedFiles, treeBlobId,
                \*   parentId (what getBranchHead returned), parents
    poll,       \* engine -> locals of SuiService.createRepository: count,
                \*   created (the repository its transaction created)
    versionId,  \* engine -> what sui.commit returned to the last call
    outcome,    \* engine -> "none" (running), "ok", or the error thrown
    trace,      \* engine -> the remote calls the running (or last) call made
    repos,      \* the ledger: Repository objects, by id
    versions,   \* the ledger: VersionNode objects, by id
    room,       \* the VersionNodes the ledger of this run may come to hold
    wire,       \* the bytes a ledger read answered with, and the library
                \*   build that reads them
    view        \* the running (or last) read: its locals and what it returned

vars == <<impl, repoId, capId, pc, op, call, poll, versionId, outcome, trace,
          repos, versions, room, wire, view>>

(***************************************************************************)
(* Bounds of the model.                                                    *)
(***************************************************************************)
MaxRepos == 1
MaxCommits == 2
MaxForkCommits == 3

Engines == {1, 2}
Impls == {"frontend", "node"}
Branches == {"main", "dev"}

\* undefined / '' for an object id
NoId == 0
\* the RepoCap created together with repository r
CapOf(r) == r + 100

(***************************************************************************)
(* Blobs.  The store is content-addressed: a blob id stands for the bytes  *)
(* stored under it.  A blob is either a file's bytes or the JSON text of a *)
(* DirectoryTree, kept as the list of its key/value pairs in the order     *)
(* JSON.stringify writes them.                                             *)
(***************************************************************************)
NoBlob == [kind |-> "none", data |-> <<>>, entries |-> <<>>]
FileBlob(d) == [kind |-> "file", data |-> d, entries |-> <<>>]
TreeBlob(t) == [kind |-> "tree", data |-> <<>>, entries |-> t]

DataHi == <<104, 105>>
DataX == <<120>>
PathA == <<"a.txt">>
PathB == <<"src", "b.ts">>

FilesAB == <<[path |-> PathA, data |-> DataHi], [path |-> PathB, data |-> DataX]>>

\* the (files, message) a caller passes to commit
CommitArgs ==
    { [files |-> FilesAB, message |-> "msg"],
      [files |-> <<>>, message |-> ""] }

(***************************************************************************)
(* TreeCodec: VersionFSClient.buildDirectoryTree.  A DirectoryTree is a    *)
(* JavaScript object: an assignment to a key it already holds replaces the *)
(* value in place, an assignment to a new key adds it last.                *)
(***************************************************************************)
HasKey(tree, p) == \E k \in DOMAIN tree : tree[k].path = p

\* the key every plain object inherits as an accessor: assigning an object
\* to it replaces the prototype and adds no member
PathProto == <<"__proto__">>

\* tree[entry.path] = entry
ObjectSet(tree, entry) ==
    IF entry.path = PathProto THEN tree
    ELSE IF HasKey(tree, entry.path)
    THEN [k \in DOMAIN tree |->
            IF tree[k].path = entry.path THEN entry ELSE tree[k]]
    ELSE Append(tree, entry)

\* parts[parts.length - 1] of file.path.split('/')
FileName(p) == p[Len(p)]

\* an entry that names a blob no upload of the call has returned
FileEntryUnstored(file) ==
    [path |-> file.path, name |-> FileName(file.path), type |-> "file",
     blobId |-> FileBlob(<<>>), size |-> file.size]

FileEntry(file) ==
    [path |-> file.path, name |-> FileName(file.path), type |-> "file",
     blobId |-> file.blobId, size |-> file.size]

RECURSIVE buildDirectoryTreeFrom(_, _)
buildDirectoryTreeFrom(ups, n) ==
    IF n = 0 THEN <<>>
    ELSE ObjectSet(buildDirectoryTreeFrom(ups, n - 1), FileEntry(ups[n]))

buildDirectoryTree(ups) == buildDirectoryTreeFrom(ups, Len(ups))

(***************************************************************************)
(* The ledger (the version_fs Move package), as the README and the spec    *)
(* describe it: create_repository makes a Repository and its RepoCap;      *)
(* commit needs the repository's RepoCap and parents that exist, stores a  *)
(* VersionNode and moves the branch; get_branch_head aborts for a branch   *)
(* with no head.                                                           *)
(***************************************************************************)
RepoExists(r) == r \in 1..Len(repos)

VersionsOf(r) == {v \in 1..Len(versions) : versions[v].repo = r}

BranchHead(r, b) ==
    IF RepoExists(r) /\ b \in DOMAIN repos[r].branches
    THEN repos[r].branches[b] ELSE NoId

NewRepository(name, sender) ==
    [name |-> name, owner |-> sender,
     branches |-> [b \in Branches |-> NoId], versionCount |-> 0]

LedgerCommitValid(r, c, pars) ==
    /\ RepoExists(r)
    /\ c = CapOf(r)
    /\ \A i \in DOMAIN pars : pars[i] \in VersionsOf(r)

LedgerCommit(r, b, root, pars, msg, sender) ==
    /\ versions' = Append(versions,
          [repo |-> r, rootBlobId |-> root, parents |-> pars,
           author |-> sender])
    /\ repos' = [repos EXCEPT ![r].branches[b] = Len(versions) + 1,
                              ![r].versionCount = @ + 1]

\* a ledger that binds a branch to any id it is given
LedgerCreateBranchAnyId(r, c, b, v) ==
    /\ RepoExists(r)
    /\ c = CapOf(r)
    /\ repos[r].branches[b] = NoId

LedgerCreateBranchValid(r, c, b, v) ==
    /\ RepoExists(r)
    /\ c = CapOf(r)
    /\ v \in VersionsOf(r)
    /\ repos[r].branches[b] = NoId

(***************************************************************************)
(* SuiService.  What the network and the wallet answer is the              *)
(* environment's choice; the operators below are what the service makes of *)
(* each answer.                                                            *)
(***************************************************************************)
\* SuiService.getBranchHead of the wallet-based service: devInspect, then
\* parseDevInspectResult, which throws when the call returned no value.
getBranchHead(r, b, net) ==
    IF net = "fail" \/ BranchHead(r, b) = NoId
    THEN [threw |-> TRUE, value |-> NoId]
    ELSE [threw |-> FALSE, value |-> BranchHead(r, b)]

\* SuiService.getBranchHead of the key-pair service: parseDevInspectResult
\* returns '' when the call returned no value.
getBranchHeadLegacy(r, b, net) ==
    IF net = "fail"
    THEN [threw |-> TRUE, value |-> NoId]
    ELSE [threw |-> FALSE, value |-> BranchHead(r, b)]

BranchHeadRead(i, r, b, net) ==
    IF i = "frontend" THEN getBranchHead(r, b, net)
    ELSE getBranchHeadLegacy(r, b, net)

\* a commit that never names a parent
ParentsNone(res) == <<>>

\* a commit that names the id after the head it has read
ParentsAhead(res) ==
    IF ~res.threw /\ res.value # NoId THEN <<res.value + 1>> ELSE <<>>

\* VersionFSClient.commit, step 4: try { parentId = getBranchHead(...);
\* if (parentId) parents = [parentId] } catch { }
ParentsFrom(res) ==
    IF ~res.threw /\ res.value # NoId THEN <<res.value>> ELSE <<>>

\* What the lookup of a transaction by its digest can answer: its events
\* with or without the commit event, or an error (the client library never
\* answers null).
TxLookups == {"event", "noevent", "notindexed", "error"}

\* SuiService.extractVersionId of the wallet-based service.
extractVersionId(lookup, newId) ==
    CASE lookup = "notindexed" -> [outcome |-> "NotIndexed", id |-> NoId]
      [] lookup = "error"      -> [outcome |-> "LookupError", id |-> NoId]
      [] lookup = "null"       -> [outcome |-> "FailedToFindTx", id |-> NoId]
      [] lookup = "event"      -> [outcome |-> "ok", id |-> newId]
      [] OTHER                 -> [outcome |-> "ok", id |-> NoId]

\* SuiService.extractVersionId of the key-pair service: the events come
\* with the execution result.
extractVersionIdLegacy(lookup, newId) ==
    IF lookup = "event" THEN [outcome |-> "ok", id |-> newId]
    ELSE [outcome |-> "NoVersionId", id |-> NoId]

VersionIdOf(i, lookup, newId) ==
    IF i = "frontend" THEN extractVersionId(lookup, newId)
    ELSE extractVersionIdLegacy(lookup, newId)

LookupsOf(i) == IF i = "frontend" THEN TxLookups ELSE {"event", "noevent"}

\* SuiService.commit: sign and execute the commit transaction, then
\* extractVersionId.  write: the transaction landed, was rejected (the
\* call throws), or was executed without effect (a digest, no event).
SuiServiceCommit(e, r, c, b, root, pars, msg) ==
    \E write \in {"landed", "rejected", "aborted"}, lookup \in LookupsOf(impl[e]) :
        /\ write = "landed" => LedgerCommitValid(r, c, pars)
        /\ (r = NoId \/ c = NoId) => write = "rejected"
        /\ lookup = "event" => write = "landed"
        /\ write = "rejected" => lookup = "noevent"
        /\ IF write = "landed"
           THEN LedgerCommit(r, b, root, pars, msg, e)
           ELSE UNCHANGED <<repos, versions>>
        /\ LET res == IF write = "rejected"
                      THEN [outcome |-> "TransactionRejected", id |-> NoId]
                      ELSE VersionIdOf(impl[e], lookup, Len(versions) + 1)
           IN /\ versionId' = [versionId EXCEPT ![e] = res.id]
              /\ outcome' = [outcome EXCEPT ![e] = res.outcome]

\* the commit transaction reached the wallet / the ledger
Submitted(r, c) == r # NoId /\ c # NoId

(***************************************************************************)
(* VersionFSClient.  A call's arguments and locals live from its start to  *)
(* its return or throw.                                                    *)
(***************************************************************************)
NoCall ==
    [files |-> <<>>, message |-> "", branch |-> "main", uploadedFiles |-> <<>>,
     treeBlobId |-> NoBlob, parentId |-> NoId, parents |-> <<>>,
     target |-> <<NoId, NoId>>]

\* the call of init: with its locals, the repository and capability the
\* engine held when it was called
InitLocals(e) ==
    [NoCall EXCEPT !.message = "Initial commit",
                   !.target = <<repoId[e], capId[e]>>]

NoPoll == [count |-> 0, created |-> NoId]

\* no ledger read answered, no read call made
NoWire == [bytes |-> <<>>]
NoView == [op |-> "none"]

Idle(e) == pc[e] = "idle"

InFlight == Cardinality({e \in Engines : pc[e] # "idle"})

\* the guard at the head of commit: the frontend client tests repoId and
\* capId, the Node client repoId alone
NotTargeted(i, r, c) ==
    IF i = "frontend" THEN r = NoId \/ c = NoId ELSE r = NoId

\* a loop that leaves for the tree after its first upload
AfterFileUploadEarly(n, total) == IF n < 1 /\ n < total THEN "upload" ELSE "tree"

\* the for loop over files: the next await once n of them are uploaded
AfterFileUpload(n, total) == IF n < total THEN "upload" ELSE "tree"

\* the await that follows the tree upload in commit
AfterTreeUpload == "head"

\* a call returns or throws
Finish(e, out) ==
    /\ pc' = [pc EXCEPT ![e] = "idle"]
    /\ outcome' = [outcome EXCEPT ![e] = out]
    /\ call' = [call EXCEPT ![e] = NoCall]

\* setRepoIds(repoId, capId)
SetRepoIds(e, r, c) ==
    /\ Idle(e)
    /\ repoId' = [repoId EXCEPT ![e] = r]
    /\ capId' = [capId EXCEPT ![e] = c]
    /\ op' = [op EXCEPT ![e] = "setRepoIds"]
    /\ outcome' = [outcome EXCEPT ![e] = "ok"]
    /\ versionId' = [versionId EXCEPT ![e] = NoId]
    /\ trace' = [trace EXCEPT ![e] = <<>>]
    /\ UNCHANGED <<impl, pc, call, poll, repos, versions, room, wire, view>>

\* commit(files, message, branch): the guard, up to the first await
CommitCall(e, fs, msg, b) ==
    /\ Idle(e)
    /\ Len(versions) + InFlight < room
    /\ op' = [op EXCEPT ![e] = "commit"]
    /\ versionId' = [versionId EXCEPT ![e] = NoId]
    /\ trace' = [trace EXCEPT ![e] = <<>>]
    /\ poll' = [poll EXCEPT ![e] = NoPoll]
    /\ IF NotTargeted(impl[e], repoId[e], capId[e])
       THEN Finish(e, "NotTargeted")
       ELSE /\ outcome' = [outcome EXCEPT ![e] = "none"]
            /\ pc' = [pc EXCEPT ![e] = AfterFileUpload(0, Len(fs))]
            /\ call' = [call EXCEPT ![e] =
                  [NoCall EXCEPT !.files = fs, !.message = msg, !.branch = b]]
    /\ UNCHANGED <<impl, repoId, capId, repos, versions, room, wire, view>>

\* a loop that skips the file whose upload failed and ends there
FileUploadSkipped(e) ==
    /\ trace' = [trace EXCEPT ![e] = Append(@, "filefail")]
    /\ pc' = [pc EXCEPT ![e] = "tree"]
    /\ UNCHANGED <<call, outcome>>

\* uploadFile throws: nothing in commit catches it
FileUploadFailed(e) ==
    /\ Finish(e, "UploadFailed")
    /\ trace' = [trace EXCEPT ![e] = Append(@, "filefail")]

\* commit, step 1: await this.walrus.uploadFile(data), one file
UploadFile(e) ==
    /\ pc[e] = "upload"
    /\ LET file == call[e].files[Len(call[e].uploadedFiles) + 1] IN
       \E ok \in BOOLEAN :
          IF ok
          THEN /\ call' = [call EXCEPT ![e].uploadedFiles =
                     Append(@, [path |-> file.path,
                                blobId |-> FileBlob(file.data),
                                size |-> Len(file.data)])]
               /\ trace' = [trace EXCEPT ![e] = Append(@, "file")]
               /\ pc' = [pc EXCEPT ![e] =
                     AfterFileUpload(Len(call[e].uploadedFiles) + 1,
                                     Len(call[e].files))]
               /\ UNCHANGED outcome
          ELSE FileUploadFailed(e)
    /\ UNCHANGED <<impl, repoId, capId, op, poll, versionId, repos, versions, room, wire, view>>

\* commit, steps 2 and 3: buildDirectoryTree, await uploadDirectory(tree)
UploadTree(e) ==
    /\ pc[e] = "tree"
    /\ LET tree == buildDirectoryTree(call[e].uploadedFiles) IN
       \E ok \in BOOLEAN :
          IF ok
          THEN /\ call' = [call EXCEPT ![e].treeBlobId = TreeBlob(tree)]
               /\ trace' = [trace EXCEPT ![e] = Append(@, "tree")]
               /\ pc' = [pc EXCEPT ![e] = AfterTreeUpload]
               /\ UNCHANGED outcome
          ELSE /\ Finish(e, "UploadFailed")
               /\ trace' = [trace EXCEPT ![e] = Append(@, "treefail")]
    /\ UNCHANGED <<impl, repoId, capId, op, poll, versionId, repos, versions, room, wire, view>>

\* commit, step 4: the branch head becomes the parent
ReadHead(e) ==
    /\ pc[e] = "head"
    /\ \E net \in {"ok", "fail"} :
          LET res == BranchHeadRead(impl[e], repoId[e], call[e].branch, net) IN
          /\ call' = [call EXCEPT ![e].parentId = res.value,
                                  ![e].parents = ParentsFrom(res)]
          /\ trace' = [trace EXCEPT ![e] =
                Append(@, IF res.threw THEN "headfail" ELSE "head")]
    /\ pc' = [pc EXCEPT ![e] = "submit"]
    /\ UNCHANGED <<impl, repoId, capId, op, poll, versionId, outcome,
                   repos, versions, room, wire, view>>

\* a commit that names as parent the head the branch has when it submits
SubmitArgsFreshHead(e) ==
    [repoId |-> repoId[e], capId |-> capId[e], branch |-> call[e].branch,
     rootBlobId |-> call[e].treeBlobId,
     parents |-> IF BranchHead(repoId[e], call[e].branch) # NoId
                 THEN <<BranchHead(repoId[e], call[e].branch)>> ELSE <<>>,
     message |-> call[e].message]

\* commit, step 5: the arguments of this.sui.commit(...)
SubmitArgs(e) ==
    [repoId |-> repoId[e], capId |-> capId[e], branch |-> call[e].branch,
     rootBlobId |-> call[e].treeBlobId, parents |-> call[e].parents,
     message |-> call[e].message]

\* commit, step 5: await this.sui.commit(...)
SubmitCommit(e) ==
    /\ pc[e] = "submit"
    /\ LET a == SubmitArgs(e) IN
       /\ SuiServiceCommit(e, a.repoId, a.capId, a.branch, a.rootBlobId,
                           a.parents, a.message)
       /\ trace' = [trace EXCEPT ![e] =
             IF Submitted(a.repoId, a.capId) THEN Append(@, "submit") ELSE @]
    /\ pc' = [pc EXCEPT ![e] = "idle"]
    /\ call' = [call EXCEPT ![e] = NoCall]
    /\ UNCHANGED <<impl, repoId, capId, op, poll, room, wire, view>>

(***************************************************************************)
(* SuiService.createRepository and VersionFSClient.init                    *)
(***************************************************************************)
\* let count = 5
InitialCount == 5

\* do { ... } while (count == 0)
LoopAgain(c) == c = 0

\* SuiService.getRepoAndCapId: getTransactionBlock(digest), then the ids of
\* the created Repository and RepoCap among its objectChanges.
getRepoAndCapId(answer, created) ==
    CASE answer = "notindexed" ->
            [threw |-> "NotIndexed", repoId |-> NoId, capId |-> NoId]
      [] answer = "error" ->
            [threw |-> "LookupError", repoId |-> NoId, capId |-> NoId]
      [] answer = "null" ->
            [threw |-> "FailedToFindTx", repoId |-> NoId, capId |-> NoId]
      [] OTHER ->
            [threw |-> "none", repoId |-> created,
             capId |-> IF created = NoId THEN NoId ELSE CapOf(created)]

\* a turn that returns whatever ids the lookup gave
PollTurnAnyIds(res, c) ==
    IF res.threw = "none" THEN "return"
    ELSE IF res.threw # "NotIndexed" THEN res.threw
    ELSE IF LoopAgain(c) THEN "again" ELSE "FailedToFindTx"

\* one turn of the do-while loop of createRepository, after count--:
\* return the ids, throw, or go on to the loop condition
PollTurn(res, c) ==
    IF res.threw = "none" /\ res.repoId # NoId /\ res.capId # NoId
    THEN "return"
    ELSE IF res.threw \notin {"none", "NotIndexed"}
    THEN res.threw
    ELSE IF LoopAgain(c) THEN "again" ELSE "FailedToFindTx"

\* SuiService.extractRepositoryId of the key-pair service
extractRepositoryId(write, newId) ==
    IF write = "landed" THEN [outcome |-> "ok", id |-> newId]
    ELSE [outcome |-> "NoRepoId", id |-> NoId]

\* what the lookup of the create_repository transaction can answer (the
\* client library never answers null)
PollAnswers == {"notindexed", "details", "error"}

\* init(repoName), up to the await of signAndExecuteTransaction in
\* createRepository.  The key-pair service has the created ids in the
\* execution result; the wallet-based one goes on to look them up.
InitCall(e) ==
    /\ Idle(e)
    /\ Len(versions) + InFlight < room
    /\ op' = [op EXCEPT ![e] = "init"]
    /\ versionId' = [versionId EXCEPT ![e] = NoId]
    /\ trace' = [trace EXCEPT ![e] = <<"sign">>]
    /\ \E write \in {"landed", "rejected", "aborted"} :
        /\ write = "landed" => Len(repos) < MaxRepos
        /\ repos' = IF write = "landed"
                    THEN Append(repos, NewRepository("proj", e))
                    ELSE repos
        /\ IF write = "rejected"
           THEN /\ Finish(e, "TransactionRejected")
                /\ poll' = [poll EXCEPT ![e] = NoPoll]
                /\ UNCHANGED repoId
           ELSE IF impl[e] = "frontend"
           THEN /\ outcome' = [outcome EXCEPT ![e] = "none"]
                /\ pc' = [pc EXCEPT ![e] = "initPoll"]
                /\ call' = [call EXCEPT ![e] = InitLocals(e)]
                /\ poll' = [poll EXCEPT ![e] =
                      [count |-> InitialCount,
                       created |-> IF write = "landed"
                                   THEN Len(repos) + 1 ELSE NoId]]
                /\ UNCHANGED repoId
           ELSE LET res == extractRepositoryId(write, Len(repos) + 1) IN
                /\ poll' = [poll EXCEPT ![e] = NoPoll]
                /\ IF res.outcome = "ok"
                   THEN /\ repoId' = [repoId EXCEPT ![e] = res.id]
                        /\ outcome' = [outcome EXCEPT ![e] = "none"]
                        /\ pc' = [pc EXCEPT ![e] = "initTree"]
                        /\ call' = [call EXCEPT ![e] = InitLocals(e)]
                   ELSE /\ Finish(e, res.outcome)
                        /\ UNCHANGED repoId
    /\ UNCHANGED <<impl, capId, versions, room, wire, view>>

\* createRepository of the wallet-based service: one turn of its loop
PollRepository(e) ==
    /\ pc[e] = "initPoll"
    /\ \E answer \in PollAnswers :
          LET res == getRepoAndCapId(answer, poll[e].created)
              turn == PollTurn(res, poll[e].count - 1)
          IN /\ trace' = [trace EXCEPT ![e] = Append(@, answer)]
             /\ poll' = [poll EXCEPT ![e] =
                   IF turn = "again" THEN [@ EXCEPT !.count = @ - 1] ELSE NoPoll]
             /\ CASE turn = "return" ->
                    /\ repoId' = [repoId EXCEPT ![e] = res.repoId]
                    /\ capId' = [capId EXCEPT ![e] = res.capId]
                    /\ pc' = [pc EXCEPT ![e] = "initTree"]
                    /\ UNCHANGED <<outcome, call>>
               [] turn = "again" ->
                    UNCHANGED <<repoId, capId, pc, outcome, call>>
               [] OTHER ->
                    /\ Finish(e, turn)
                    /\ UNCHANGED <<repoId, capId>>
    /\ UNCHANGED <<impl, op, versionId, repos, versions, room, wire, view>>

\* init: await this.walrus.uploadDirectory(emptyTree)
InitTree(e) ==
    /\ pc[e] = "initTree"
    /\ \E ok \in BOOLEAN :
          IF ok
          THEN /\ call' = [call EXCEPT ![e].treeBlobId = TreeBlob(<<>>)]
               /\ trace' = [trace EXCEPT ![e] = Append(@, "tree")]
               /\ pc' = [pc EXCEPT ![e] = "initCommit"]
               /\ UNCHANGED outcome
          ELSE /\ Finish(e, "UploadFailed")
               /\ trace' = [trace EXCEPT ![e] = Append(@, "treefail")]
    /\ UNCHANGED <<impl, repoId, capId, op, poll, versionId, repos, versions, room, wire, view>>

\* init: await this.sui.commit(repoId, capId, 'main', treeBlobId, [],
\* 'Initial commit')
InitCommit(e) ==
    /\ pc[e] = "initCommit"
    /\ SuiServiceCommit(e, repoId[e], capId[e], "main", call[e].treeBlobId,
                        <<>>, "Initial commit")
    /\ trace' = [trace EXCEPT ![e] =
          IF Submitted(repoId[e], capId[e]) THEN Append(@, "submit") ELSE @]
    /\ pc' = [pc EXCEPT ![e] = "idle"]
    /\ call' = [call EXCEPT ![e] = NoCall]
    /\ UNCHANGED <<impl, repoId, capId, op, poll, room, wire, view>>

\* createBranch(branchName, fromVersion) of the Node client (the frontend
\* client has none); from = NoId: no fromVersion given
CreateBranch(e, b, from) ==
    /\ Idle(e)
    /\ impl[e] = "node"
    /\ op' = [op EXCEPT ![e] = "createBranch"]
    /\ poll' = [poll EXCEPT ![e] = NoPoll]
    /\ versionId' = [versionId EXCEPT ![e] = NoId]
    /\ IF repoId[e] = NoId
       THEN /\ outcome' = [outcome EXCEPT ![e] = "NotTargeted"]
            /\ trace' = [trace EXCEPT ![e] = <<>>]
            /\ UNCHANGED repos
       ELSE \E net \in {"ok", "fail"}, write \in {"landed", "rejected", "aborted"} :
            LET read == IF from # NoId
                        THEN [threw |-> FALSE, value |-> from]
                        ELSE getBranchHeadLegacy(repoId[e], "main", net)
            IN /\ from # NoId => net = "ok"
               /\ IF read.threw
                  THEN /\ write = "rejected"
                       /\ outcome' = [outcome EXCEPT ![e] = "ReadFailed"]
                       /\ trace' = [trace EXCEPT ![e] = <<"headfail">>]
                       /\ UNCHANGED repos
                  ELSE /\ write = "landed" =>
                            LedgerCreateBranchValid(repoId[e], capId[e], b, read.value)
                       /\ capId[e] = NoId => write = "rejected"
                       /\ repos' = IF write = "landed"
                                   THEN [repos EXCEPT ![repoId[e]].branches[b] = read.value]
                                   ELSE repos
                       /\ outcome' = [outcome EXCEPT ![e] =
                             IF write = "rejected" THEN "TransactionRejected" ELSE "ok"]
                       /\ trace' = [trace EXCEPT ![e] =
                             (IF from = NoId THEN <<"head">> ELSE <<>>) \o
                             (IF capId[e] # NoId THEN <<"submit">> ELSE <<>>)]
    /\ UNCHANGED <<impl, repoId, capId, pc, call, versions, room, wire, view>>

\* the calls that only read: log of both clients; checkout, cat, diff and
\* status of the Node client
ReadCalls(i) ==
    IF i = "frontend" THEN {"log"}
    ELSE {"log", "checkout", "cat", "diff", "status"}

\* log, checkout, cat, diff, status: each throws when this.repoId is not
\* set, and otherwise reads the ledger and the store, which may fail.  None
\* assigns a field of the engine or writes to the ledger.
ReadCall(e, o) ==
    /\ Idle(e)
    /\ o \in ReadCalls(impl[e])
    /\ op' = [op EXCEPT ![e] = "read"]
    /\ versionId' = [versionId EXCEPT ![e] = NoId]
    /\ trace' = [trace EXCEPT ![e] = <<>>]
    /\ poll' = [poll EXCEPT ![e] = NoPoll]
    /\ \E net \in {"ok", "fail"} :
          outcome' = [outcome EXCEPT ![e] =
              IF repoId[e] = NoId THEN "NotTargeted"
              ELSE IF net = "fail" THEN "ReadFailed" ELSE "ok"]
    /\ UNCHANGED <<impl, repoId, capId, pc, call, repos, versions, room, wire, view>>

(***************************************************************************)
(* The engine, used by one caller at a time: a call starts when the one    *)
(* before it has returned or thrown.                                       *)
(***************************************************************************)
Init ==
    /\ impl \in {[e \in Engines |-> i] : i \in Impls}
    /\ repoId = [e \in Engines |-> NoId]
    /\ capId = [e \in Engines |-> NoId]
    /\ pc = [e \in Engines |-> "idle"]
    /\ op = [e \in Engines |-> "none"]
    /\ call = [e \in Engines |-> NoCall]
    /\ poll = [e \in Engines |-> NoPoll]
    /\ versionId = [e \in Engines |-> NoId]
    /\ outcome = [e \in Engines |-> "none"]
    /\ trace = [e \in Engines |-> <<>>]
    /\ repos = <<>>
    /\ versions = <<>>
    /\ room = MaxCommits
    /\ wire = NoWire
    /\ view = NoView

\* what a caller may pass to setRepoIds for repository r
CapsFor(r) == IF r = NoId THEN {NoId} ELSE {NoId, CapOf(r)}

\* the id of a repository this ledger does not hold and never will
Elsewhere == MaxRepos + 1

\* the repositories a caller may name to setRepoIds
NamedRepos == (0..Len(repos)) \cup {Elsewhere}

Next ==
    \/ \E r \in NamedRepos : \E c \in CapsFor(r) : SetRepoIds(1, r, c)
    \/ InitCall(1)
    \/ PollRepository(1)
    \/ InitTree(1)
    \/ InitCommit(1)
    \/ \E a \in CommitArgs, b \in Branches : CommitCall(1, a.files, a.message, b)
    \/ UploadFile(1)
    \/ UploadTree(1)
    \/ ReadHead(1)
    \/ SubmitCommit(1)
    \/ \E b \in Branches, from \in 0..(Len(versions) + 1) : CreateBranch(1, b, from)
    \/ \E o \in {"log", "checkout", "cat", "diff", "status"} : ReadCall(1, o)

Spec == Init /\ [][Next]_vars

(***************************************************************************)
(* Two engines at work on branch main of one repository, which init has    *)
(* created: both hold its id and its capability.                           *)
(***************************************************************************)
RootVersion ==
    [repo |-> 1, rootBlobId |-> TreeBlob(<<>>), parents |-> <<>>, author |-> 1]

InitFork ==
    /\ impl \in {[e \in Engines |-> i] : i \in Impls}
    /\ repoId = [e \in Engines |-> 1]
    /\ capId = [e \in Engines |-> CapOf(1)]
    /\ pc = [e \in Engines |-> "idle"]
    /\ op = [e \in Engines |-> "setRepoIds"]
    /\ call = [e \in Engines |-> NoCall]
    /\ poll = [e \in Engines |-> NoPoll]
    /\ versionId = [e \in Engines |-> NoId]
    /\ outcome = [e \in Engines |-> "ok"]
    /\ trace = [e \in Engines |-> <<>>]
    /\ repos = <<[NewRepository("proj", 1) EXCEPT !.branches["main"] = 1,
                                                  !.versionCount = 1]>>
    /\ versions = <<RootVersion>>
    /\ room = MaxForkCommits
    /\ wire = NoWire
    /\ view = NoView

NextFork ==
    \E e \in Engines :
        \/ \E a \in CommitArgs : CommitCall(e, a.files, a.message, "main")
        \/ UploadFile(e)
        \/ UploadTree(e)
        \/ ReadHead(e)
        \/ SubmitCommit(e)

SpecFork == InitFork /\ [][NextFork]_vars

(***************************************************************************)
(* VersionFSClient.log.  getVersion is taken here by what it gives the     *)
(* client: the VersionInfo of a commit of the repository, or a throw.      *)
(***************************************************************************)
MaxLogVersions == 3
MaxLimit == 3

\* SuiService.getVersion(repoId, versionId), as the client sees it
getVersion(r, v, net) ==
    IF net = "fail" \/ v \notin VersionsOf(r)
    THEN [threw |-> TRUE, value |-> <<>>]
    ELSE [threw |-> FALSE, value |-> versions[v]]

\* a history that goes on through a commit's last parent
LastParent(parents) == IF Len(parents) > 0 THEN parents[Len(parents)] ELSE NoId

\* version.parents.length > 0 ? version.parents[0] : ''
FirstParent(parents) == IF Len(parents) > 0 THEN parents[1] ELSE NoId

\* the loop condition: currentId && count < limit
LogGoesOn(currentId, count, limit) == currentId # NoId /\ count < limit

NoLog ==
    [op |-> "log", branch |-> "main", limit |-> 0, currentId |-> NoId,
     count |-> 0, commits |-> <<>>, visited |-> <<>>, returned |-> FALSE]

\* log throws: the commits it has collected go with it
LogThrows(e, out) ==
    /\ Finish(e, out)
    /\ view' = [view EXCEPT !.commits = <<>>, !.returned = FALSE]

\* log(branch, limit), up to the await of getBranchHead
LogCall(e, b, n) ==
    /\ Idle(e)
    /\ op' = [op EXCEPT ![e] = "log"]
    /\ versionId' = [versionId EXCEPT ![e] = NoId]
    /\ trace' = [trace EXCEPT ![e] = <<>>]
    /\ poll' = [poll EXCEPT ![e] = NoPoll]
    /\ view' = [NoLog EXCEPT !.branch = b, !.limit = n]
    /\ IF repoId[e] = NoId
       THEN Finish(e, "NotTargeted")
       ELSE /\ outcome' = [outcome EXCEPT ![e] = "none"]
            /\ pc' = [pc EXCEPT ![e] = "logHead"]
            /\ UNCHANGED call
    /\ UNCHANGED <<impl, repoId, capId, repos, versions, room, wire>>

\* log: let currentId = await this.sui.getBranchHead(this.repoId, branch),
\* then the loop condition
LogHead(e) ==
    /\ pc[e] = "logHead"
    /\ \E net \in {"ok", "fail"} :
          LET res == BranchHeadRead(impl[e], repoId[e], view.branch, net) IN
          IF res.threw
          THEN /\ LogThrows(e, "ReadFailed")
               /\ trace' = [trace EXCEPT ![e] = Append(@, "headfail")]
          ELSE /\ trace' = [trace EXCEPT ![e] = Append(@, "head")]
               /\ IF LogGoesOn(res.value, 0, view.limit)
                  THEN /\ view' = [view EXCEPT !.currentId = res.value]
                       /\ pc' = [pc EXCEPT ![e] = "logFetch"]
                       /\ UNCHANGED <<outcome, call>>
                  ELSE /\ view' = [view EXCEPT !.currentId = res.value,
                                               !.returned = TRUE]
                       /\ Finish(e, "ok")
    /\ UNCHANGED <<impl, repoId, capId, op, poll, versionId, repos, versions,
                   room, wire>>

\* log: one turn of the loop: await this.sui.getVersion(this.repoId,
\* currentId), push, move to the first parent
LogFetch(e) ==
    /\ pc[e] = "logFetch"
    /\ \E net \in {"ok", "fail"} :
          LET res == getVersion(repoId[e], view.currentId, net) IN
          IF res.threw
          THEN /\ LogThrows(e, "ReadFailed")
               /\ trace' = [trace EXCEPT ![e] = Append(@, "versionfail")]
          ELSE LET next == FirstParent(res.value.parents) IN
               /\ trace' = [trace EXCEPT ![e] = Append(@, "version")]
               /\ IF LogGoesOn(next, view.count + 1, view.limit)
                  THEN /\ view' = [view EXCEPT
                             !.commits = Append(@, res.value),
                             !.visited = Append(@, view.currentId),
                             !.currentId = next, !.count = @ + 1]
                       /\ UNCHANGED <<pc, outcome, call>>
                  ELSE /\ view' = [view EXCEPT
                             !.commits = Append(@, res.value),
                             !.visited = Append(@, view.currentId),
                             !.currentId = next, !.count = @ + 1,
                             !.returned = TRUE]
                       /\ Finish(e, "ok")
    /\ UNCHANGED <<impl, repoId, capId, op, poll, versionId, repos, versions,
                   room, wire>>

\* an engine that setRepoIds has targeted at repository 1
EngineTargeted ==
    /\ impl \in {[e \in Engines |-> i] : i \in Impls}
    /\ repoId = [e \in Engines |-> 1]
    /\ capId = [e \in Engines |-> CapOf(1)]
    /\ pc = [e \in Engines |-> "idle"]
    /\ op = [e \in Engines |-> "setRepoIds"]
    /\ call = [e \in Engines |-> NoCall]
    /\ poll = [e \in Engines |-> NoPoll]
    /\ versionId = [e \in Engines |-> NoId]
    /\ outcome = [e \in Engines |-> "ok"]
    /\ trace = [e \in Engines |-> <<>>]

\* the parents a commit k of the ledger may have: none, one earlier commit,
\* or two (a merge)
ParentChoices(k) ==
    {<<>>} \cup {<<i>> : i \in 1..(k - 1)}
           \cup UNION {{<<i, j>> : j \in (1..(k - 1)) \ {i}} : i \in 1..(k - 1)}

\* the ledgers log is run on: one repository, its commits with any such
\* parents, and its branch main at any of them or without a head
InitLog ==
    /\ EngineTargeted
    /\ room = 0
    /\ wire = NoWire
    /\ view = NoView
    /\ \E n \in 1..MaxLogVersions :
          /\ versions \in [1..n -> [repo : {1}, rootBlobId : {TreeBlob(<<>>)},
                                    parents : UNION {ParentChoices(k) : k \in 1..n},
                                    author : {1}]]
          /\ \A k \in 1..n : versions[k].parents \in ParentChoices(k)
          /\ \E h \in 0..n :
                repos = <<[NewRepository("proj", 1) EXCEPT
                              !.branches["main"] = h, !.versionCount = n]>>

NextLog ==
    \/ \E b \in Branches, n \in 0..MaxLimit : LogCall(1, b, n)
    \/ LogHead(1)
    \/ LogFetch(1)

SpecLog == InitLog /\ [][NextLog]_vars

(***************************************************************************)
(* One engine at work on branch main of the repository its init has        *)
(* created: commits, whose result the service sees as the ledger has it,   *)
(* and logs.                                                               *)
(***************************************************************************)
InitHistory ==
    /\ EngineTargeted
    /\ repos = <<[NewRepository("proj", 1) EXCEPT !.branches["main"] = 1,
                                                  !.versionCount = 1]>>
    /\ versions = <<RootVersion>>
    /\ room = MaxCommits + 1
    /\ wire = NoWire
    /\ view = NoView

\* a commit call returns successfully exactly when its commit has landed
SubmitCommitSeen(e) ==
    /\ SubmitCommit(e)
    /\ outcome'[e] = "ok" <=> Len(versions') = Len(versions) + 1

NextHistory ==
    \/ \E a \in CommitArgs : CommitCall(1, a.files, a.message, "main")
    \/ UploadFile(1)
    \/ UploadTree(1)
    \/ ReadHead(1)
    \/ SubmitCommitSeen(1)
    \/ \E n \in 0..MaxLimit : LogCall(1, "main", n)
    \/ LogHead(1)
    \/ LogFetch(1)

SpecHistory == InitHistory /\ [][NextHistory]_vars

(***************************************************************************)
(* VersionFSClient.diff of the Node client.  A downloaded tree is a plain  *)
(* JavaScript object: tree[path] answers the entry the tree holds under    *)
(* that key, and for a key it does not hold the member of that name that   *)
(* every object inherits (constructor, toString, ...), or undefined.       *)
(***************************************************************************)
MaxContents == 2

PathCtor == <<"constructor">>
PathToString == <<"toString">>

\* names every plain object answers to without holding them
ObjectPrototypeKeys == {PathCtor, PathToString}

DiffPaths == <<PathA, PathB, PathCtor>>

Undefined ==
    [defined |-> FALSE, truthy |-> FALSE, type |-> "undefined", blobId |-> NoBlob]

\* tree[path]
ObjectGet(tree, p) ==
    IF HasKey(tree, p)
    THEN LET k == CHOOSE k \in DOMAIN tree : tree[k].path = p
         IN [defined |-> TRUE, truthy |-> TRUE, type |-> tree[k].type,
             blobId |-> tree[k].blobId]
    ELSE IF p \in ObjectPrototypeKeys
    THEN [defined |-> TRUE, truthy |-> TRUE, type |-> "undefined",
          blobId |-> NoBlob]
    ELSE Undefined

\* Object.keys(tree)
ObjectKeys(tree) == [k \in DOMAIN tree |-> tree[k].path]

\* new Set([...Object.keys(tree1), ...Object.keys(tree2)]), in the order
\* the loop visits it
AllPaths(tree1, tree2) ==
    ObjectKeys(tree1) \o
    SelectSeq(ObjectKeys(tree2), LAMBDA p : ~HasKey(tree1, p))

\* a loop body that takes every path both trees hold for modified
DiffLineNoCompare(tree1, tree2, p) ==
    LET file1 == ObjectGet(tree1, p)
        file2 == ObjectGet(tree2, p)
    IN IF ~file1.truthy THEN <<[path |-> p, kind |-> "added"]>>
       ELSE IF ~file2.truthy THEN <<[path |-> p, kind |-> "deleted"]>>
       ELSE <<[path |-> p, kind |-> "modified"]>>

\* the body of the loop of diff for one path: the line it logs, if any
DiffLine(tree1, tree2, p) ==
    LET file1 == ObjectGet(tree1, p)
        file2 == ObjectGet(tree2, p)
    IN IF ~file1.truthy THEN <<[path |-> p, kind |-> "added"]>>
       ELSE IF ~file2.truthy THEN <<[path |-> p, kind |-> "deleted"]>>
       ELSE IF file1.blobId # file2.blobId
       THEN <<[path |-> p, kind |-> "modified"]>>
       ELSE <<>>

RECURSIVE DiffLines(_, _, _, _)
DiffLines(tree1, tree2, paths, n) ==
    IF n = 0 THEN <<>>
    ELSE DiffLines(tree1, tree2, paths, n - 1) \o DiffLine(tree1, tree2, paths[n])

\* WalrusService.downloadDirectory: JSON.parse of the blob's text
downloadDirectory(blob, net) ==
    IF net = "fail" \/ blob.kind # "tree"
    THEN [threw |-> TRUE, value |-> <<>>]
    ELSE [threw |-> FALSE, value |-> blob.entries]

NoDiff ==
    [op |-> "diff", version1 |-> NoId, version2 |-> NoId, v1 |-> NoBlob,
     v2 |-> NoBlob, tree1 |-> <<>>, tree2 |-> <<>>, report |-> <<>>,
     returned |-> FALSE]

\* diff(version1, version2), up to the first await
DiffCall(e, a, b) ==
    /\ Idle(e)
    /\ impl[e] = "node"
    /\ op' = [op EXCEPT ![e] = "diff"]
    /\ versionId' = [versionId EXCEPT ![e] = NoId]
    /\ trace' = [trace EXCEPT ![e] = <<>>]
    /\ poll' = [poll EXCEPT ![e] = NoPoll]
    /\ view' = [NoDiff EXCEPT !.version1 = a, !.version2 = b]
    /\ IF repoId[e] = NoId
       THEN Finish(e, "NotTargeted")
       ELSE /\ outcome' = [outcome EXCEPT ![e] = "none"]
            /\ pc' = [pc EXCEPT ![e] = "diffV1"]
            /\ UNCHANGED call
    /\ UNCHANGED <<impl, repoId, capId, repos, versions, room, wire>>

\* diff: one of its four awaits: getVersion of version1 and of version2,
\* downloadDirectory of both trees; after the last, the loop over allPaths
DiffStep(e) ==
    /\ pc[e] \in {"diffV1", "diffV2", "diffTree1", "diffTree2"}
    /\ \E net \in {"ok", "fail"} :
          LET res == CASE pc[e] = "diffV1" ->
                            getVersion(repoId[e], view.version1, net)
                       [] pc[e] = "diffV2" ->
                            getVersion(repoId[e], view.version2, net)
                       [] pc[e] = "diffTree1" -> downloadDirectory(view.v1, net)
                       [] OTHER -> downloadDirectory(view.v2, net)
          IN IF res.threw
             THEN /\ Finish(e, "ReadFailed")
                  /\ trace' = [trace EXCEPT ![e] = Append(@, "readfail")]
                  /\ UNCHANGED view
             ELSE /\ trace' = [trace EXCEPT ![e] = Append(@, "read")]
                  /\ CASE pc[e] = "diffV1" ->
                            /\ view' = [view EXCEPT !.v1 = res.value.rootBlobId]
                            /\ pc' = [pc EXCEPT ![e] = "diffV2"]
                            /\ UNCHANGED <<outcome, call>>
                       [] pc[e] = "diffV2" ->
                            /\ view' = [view EXCEPT !.v2 = res.value.rootBlobId]
                            /\ pc' = [pc EXCEPT ![e] = "diffTree1"]
                            /\ UNCHANGED <<outcome, call>>
                       [] pc[e] = "diffTree1" ->
                            /\ view' = [view EXCEPT !.tree1 = res.value]
                            /\ pc' = [pc EXCEPT ![e] = "diffTree2"]
                            /\ UNCHANGED <<outcome, call>>
                       [] OTHER ->
                            /\ view' = [view EXCEPT
                                  !.tree2 = res.value,
                                  !.report =
                                      LET paths == AllPaths(view.tree1, res.value)
                                      IN DiffLines(view.tree1, res.value,
                                                   paths, Len(paths)),
                                  !.returned = TRUE]
                            /\ Finish(e, "ok")
    /\ UNCHANGED <<impl, repoId, capId, op, poll, versionId, repos, versions,
                   room, wire>>

\* the tree a commit makes of the files chosen by c: c[k] = 0 leaves out
\* path k, c[k] = d puts it in with content d
ChosenFiles(c) ==
    LET ks == SelectSeq([k \in 1..Len(DiffPaths) |-> k], LAMBDA k : c[k] # 0)
    IN [i \in 1..Len(ks) |->
          [path |-> DiffPaths[ks[i]], blobId |-> FileBlob(<<c[ks[i]]>>), size |-> 1]]

\* a repository of two commits with any two such trees
InitDiff ==
    /\ EngineTargeted
    /\ impl[1] = "node"
    /\ room = 0
    /\ wire = NoWire
    /\ view = NoView
    /\ repos = <<[NewRepository("proj", 1) EXCEPT !.branches["main"] = 2,
                                                  !.versionCount = 2]>>
    /\ \E c1, c2 \in [1..Len(DiffPaths) -> 0..MaxContents] :
          versions =
             <<[RootVersion EXCEPT
                  !.rootBlobId = TreeBlob(buildDirectoryTree(ChosenFiles(c1)))],
               [RootVersion EXCEPT
                  !.rootBlobId = TreeBlob(buildDirectoryTree(ChosenFiles(c2))),
                  !.parents = <<1>>]>>

NextDiff ==
    \/ \E a, b \in 1..2 : DiffCall(1, a, b)
    \/ DiffStep(1)

SpecDiff == InitDiff /\ [][NextDiff]_vars

(***************************************************************************)
(* SuiService.getVersion of the wallet-based service: the VersionNode the  *)
(* ledger read answers with is a byte buffer, read field by field with a   *)
(* BcsReader.  The reader is the library's: readBytes gives a view on the  *)
(* buffer and throws past its end; readULEB of older builds reads a        *)
(* missing byte as 0 and moves on, that of newer builds throws.            *)
(***************************************************************************)
\* readBytes(32) of readAddress, readBytes(8) of readU64
AddressWidth == 32
U64Width == 8

\* bounds of the records that are decoded
MaxParents == 2
LongLen == 130

\* the code point TextDecoder takes off the front of a text, and the one it
\* writes for bytes that are not UTF-8
ByteOrderMark == 65279
Replacement == 65533

\* the id of ledger object k as the ledger writes it: 32 bytes
IdBytes(k) == [i \in 1..AddressWidth |-> IF i = AddressWidth THEN k ELSE 0]

\* an unsigned integer as LEB128
RECURSIVE UlebEncode(_)
UlebEncode(n) ==
    IF n < 128 THEN <<n>> ELSE <<(n % 128) + 128>> \o UlebEncode(n \div 128)

\* the ledger's layout of a VersionNode
BcsString(bytes) == UlebEncode(Len(bytes)) \o bytes

RECURSIVE Concat(_)
Concat(seqs) == IF seqs = <<>> THEN <<>> ELSE Head(seqs) \o Concat(Tail(seqs))

EncodeVersionNode(rec) ==
    BcsString(rec.rootBlobId) \o UlebEncode(Len(rec.parents))
        \o Concat(rec.parents) \o rec.author \o rec.timestamp
        \o BcsString(rec.message) \o rec.versionId

\* the bytes below 128 an array starts with: each is its own code point
AsciiRun(b) ==
    IF \A i \in DOMAIN b : b[i] < 128 THEN Len(b)
    ELSE (CHOOSE i \in DOMAIN b :
             b[i] >= 128 /\ \A j \in 1..(i - 1) : b[j] < 128) - 1

\* the text of UTF-8 bytes, as code points
RECURSIVE Utf8Text(_)
Utf8Text(b) ==
    IF b = <<>> THEN <<>>
    ELSE IF AsciiRun(b) > 0
    THEN SubSeq(b, 1, AsciiRun(b)) \o Utf8Text(SubSeq(b, AsciiRun(b) + 1, Len(b)))
    ELSE IF b[1] \in 194..223 /\ Len(b) >= 2 /\ b[2] \in 128..191
    THEN <<(b[1] - 192) * 64 + (b[2] - 128)>> \o Utf8Text(SubSeq(b, 3, Len(b)))
    ELSE IF b[1] \in 224..239 /\ Len(b) >= 3 /\ b[2] \in 128..191
            /\ b[3] \in 128..191
    THEN <<(b[1] - 224) * 4096 + (b[2] - 128) * 64 + (b[3] - 128)>>
            \o Utf8Text(SubSeq(b, 4, Len(b)))
    ELSE <<Replacement>> \o Utf8Text(Tail(b))

\* new TextDecoder().decode(bytes): UTF-8, not fatal, a leading byte order
\* mark taken off
TextDecode(b) ==
    LET text == Utf8Text(b) IN
    IF text # <<>> /\ text[1] = ByteOrderMark THEN Tail(text) ELSE text

\* byte.toString(16).padStart(2, '0'), joined: two hex digits a byte
bytesToHex(b) ==
    [i \in 1..(2 * Len(b)) |->
        IF i % 2 = 1 THEN b[(i + 1) \div 2] \div 16 ELSE b[i \div 2] % 16]

\* new BcsReader(new Uint8Array(bytes))
NewReader(b) == [buf |-> b, pos |-> 0, err |-> FALSE]

Throw(rd) == [rd EXCEPT !.err = TRUE]

\* a reader that gives the bytes there are when fewer than n are left
readBytesClamped(rd, n) ==
    IF rd.err THEN [val |-> <<>>, at |-> rd.pos, rd |-> rd]
    ELSE [val |-> IF rd.pos >= Len(rd.buf) THEN <<>>
                  ELSE SubSeq(rd.buf, rd.pos + 1,
                              IF rd.pos + n > Len(rd.buf) THEN Len(rd.buf)
                              ELSE rd.pos + n),
          at |-> rd.pos, rd |-> [rd EXCEPT !.pos = @ + n]]

\* BcsReader.readBytes(n): new Uint8Array(buffer, start, n), then shift(n)
readBytes(rd, n) ==
    IF rd.err \/ rd.pos + n > Len(rd.buf)
    THEN [val |-> <<>>, at |-> rd.pos, rd |-> Throw(rd)]
    ELSE [val |-> SubSeq(rd.buf, rd.pos + 1, rd.pos + n), at |-> rd.pos,
          rd |-> [rd EXCEPT !.pos = @ + n]]

\* ulebDecode of the bytes from position start on, k bytes taken so far
RECURSIVE ulebDecode(_, _, _, _)
ulebDecode(buf, start, k, strict) ==
    IF start + k >= Len(buf)
    THEN [value |-> 0, length |-> k + 1, err |-> strict]
    ELSE LET byte == buf[start + k + 1] IN
         IF byte < 128 THEN [value |-> byte, length |-> k + 1, err |-> FALSE]
         ELSE LET more == ulebDecode(buf, start, k + 1, strict) IN
              [value |-> (byte % 128) + 128 * more.value,
               length |-> more.length, err |-> more.err]

\* BcsReader.readULEB(): new Uint8Array(buffer, start), ulebDecode,
\* shift(length)
readULEB(rd, strict) ==
    IF rd.err \/ rd.pos > Len(rd.buf)
    THEN [val |-> 0, rd |-> Throw(rd)]
    ELSE LET d == ulebDecode(rd.buf, rd.pos, 0, strict) IN
         IF d.err THEN [val |-> 0, rd |-> Throw(rd)]
         ELSE [val |-> d.value, rd |-> [rd EXCEPT !.pos = @ + d.length]]

\* readAddress(reader)
readAddress(rd) ==
    LET b == readBytes(rd, AddressWidth) IN
    [val |-> bytesToHex(b.val), rd |-> b.rd]

\* readString(reader)
readString(rd, strict) ==
    LET n == readULEB(rd, strict)
        b == readBytes(n.rd, n.val)
    IN [val |-> TextDecode(b.val), rd |-> b.rd]

\* new DataView(bytes.buffer).getBigUint64(0, true): bytes is a view on the
\* reader's buffer, and bytes.buffer is that whole buffer
U64OfView(buf, at) == SubSeq(buf, 1, U64Width)

\* readU64(reader): the value, as its 8 little-endian bytes; getBigUint64
\* throws on a buffer of fewer than 8 bytes.  Number() is exact below 2^53,
\* where the timestamps of the model are.
readU64(rd) ==
    LET b == readBytes(rd, U64Width) IN
    IF b.rd.err \/ Len(rd.buf) < U64Width
    THEN [val |-> <<>>, rd |-> Throw(b.rd)]
    ELSE [val |-> U64OfView(rd.buf, b.at), rd |-> b.rd]

\* for (let i = 0; i < parentCount; i++) parents.push(readAddress(reader))
RECURSIVE readAddresses(_, _)
readAddresses(rd, n) ==
    IF n = 0 \/ rd.err THEN [val |-> <<>>, rd |-> rd]
    ELSE LET a == readAddress(rd)
             more == readAddresses(a.rd, n - 1)
         IN [val |-> <<a.val>> \o more.val, rd |-> more.rd]

\* the order in which getVersion reads the fields of a VersionNode
FieldOrder == <<"rootBlobId", "parents", "author", "timestamp", "message",
                "versionId">>

\* a decoder that reads the author before the parents
FieldOrderAuthorFirst == <<"rootBlobId", "author", "parents", "timestamp",
                           "message", "versionId">>

\* one field read, by its kind
readField(name, rd, strict) ==
    CASE name \in {"rootBlobId", "message"} -> readString(rd, strict)
      [] name = "parents" ->
            LET n == readULEB(rd, strict) IN readAddresses(n.rd, n.val)
      [] name = "timestamp" -> readU64(rd)
      [] OTHER -> readAddress(rd)

\* the fields read in order: the values so far and the reader
RECURSIVE readFields(_, _, _, _)
readFields(order, k, rd, strict) ==
    IF k = 0 THEN [vals |-> <<>>, ats |-> <<>>, rd |-> rd]
    ELSE LET before == readFields(order, k - 1, rd, strict)
             f == readField(order[k], before.rd, strict)
         IN [vals |-> Append(before.vals, f.val),
             ats |-> Append(before.ats, before.rd.pos), rd |-> f.rd]

IndexOf(order, name) == CHOOSE k \in DOMAIN order : order[k] = name

\* SuiService.getVersion, step 4: the VersionInfo it returns, or the throw
parseVersionNode(bytes, strict) ==
    LET r == readFields(FieldOrder, Len(FieldOrder), NewReader(bytes), strict)
        get(name) == r.vals[IndexOf(FieldOrder, name)]
    IN IF r.rd.err
       THEN [op |-> "getVersion", outcome |-> "DecodeFailed"]
       ELSE [op |-> "getVersion", outcome |-> "ok",
             versionId |-> get("versionId"), rootBlobId |-> get("rootBlobId"),
             parents |-> get("parents"), author |-> get("author"),
             timestamp |-> get("timestamp"), message |-> get("message"),
             timestampAt |-> r.ats[IndexOf(FieldOrder, "timestamp")],
             pos |-> r.rd.pos]

\* the engine of a run that only reads: constructed, nothing called
EngineAtRest ==
    /\ impl = [e \in Engines |-> "frontend"]
    /\ repoId = [e \in Engines |-> NoId]
    /\ capId = [e \in Engines |-> NoId]
    /\ pc = [e \in Engines |-> "idle"]
    /\ op = [e \in Engines |-> "none"]
    /\ call = [e \in Engines |-> NoCall]
    /\ poll = [e \in Engines |-> NoPoll]
    /\ versionId = [e \in Engines |-> NoId]
    /\ outcome = [e \in Engines |-> "none"]
    /\ trace = [e \in Engines |-> <<>>]
    /\ room = 0

engineVars == <<impl, repoId, capId, pc, op, call, poll, versionId, outcome,
                trace, room>>

\* the VersionNodes that are decoded: blob ids and messages short and long,
\* empty, and with a byte order mark in front
TextAb == <<97, 98>>
TextHi == <<104, 105>>
TextLong == [i \in 1..LongLen |-> 97]
TextMarked == <<239, 187, 191>> \o TextHi

TimeA == <<1, 2, 3, 4, 5, 6, 0, 0>>
TimeB == <<0, 0, 0, 0, 0, 0, 0, 0>>

VersionNodes ==
    { [rootBlobId |-> root, parents |-> [i \in 1..k |-> IdBytes(i)],
       author |-> IdBytes(7), timestamp |-> ts, message |-> msg,
       versionId |-> IdBytes(k + 1)] :
         root \in {TextAb, TextLong}, k \in 0..MaxParents, ts \in {TimeA, TimeB},
         msg \in {TextHi, <<>>, TextMarked} }

\* the ledger read answers with the bytes of a VersionNode, whole or cut
\* short
InitDecode ==
    /\ EngineAtRest
    /\ repos = <<>>
    /\ versions = <<>>
    /\ view = NoView
    /\ \E rec \in VersionNodes, strict \in BOOLEAN :
          \E cut \in 0..Len(EncodeVersionNode(rec)) :
              wire = [bytes |-> SubSeq(EncodeVersionNode(rec), 1, cut),
                      whole |-> cut = Len(EncodeVersionNode(rec)),
                      rec |-> rec, strict |-> strict]

\* getVersion, step 4, on the bytes the read answered with
GetVersionParse ==
    /\ view = NoView
    /\ wire # NoWire
    /\ view' = parseVersionNode(wire.bytes, wire.strict)
    /\ UNCHANGED <<engineVars, repos, versions, wire>>

NextDecode == GetVersionParse

SpecDecode == InitDecode /\ [][NextDecode]_vars

(***************************************************************************)
(* VersionFSClient.cat of the Node client.                                 *)
(***************************************************************************)
\* bytes that are no UTF-8 text
DataRaw == <<255>>

\* WalrusService.downloadFile: the bytes stored under the blob id
downloadFile(blob, net) ==
    IF net = "fail" \/ blob.kind # "file"
    THEN [threw |-> TRUE, value |-> <<>>]
    ELSE [threw |-> FALSE, value |-> blob.data]

\* cat: !(!fileInfo || fileInfo.type !== 'file' || !fileInfo.blobId)
IsFile(fileInfo) ==
    fileInfo.truthy /\ fileInfo.type = "file" /\ fileInfo.blobId # NoBlob

NoCat ==
    [op |-> "cat", filePath |-> <<>>, version |-> NoId, branch |-> "main",
     versionId |-> NoId, rootBlobId |-> NoBlob, fileBlob |-> NoBlob,
     content |-> <<>>, returned |-> FALSE]

\* cat(filePath, version, branch), up to the first await; version = NoId:
\* no version given
CatCall(e, p, v, b) ==
    /\ Idle(e)
    /\ impl[e] = "node"
    /\ op' = [op EXCEPT ![e] = "cat"]
    /\ versionId' = [versionId EXCEPT ![e] = NoId]
    /\ trace' = [trace EXCEPT ![e] = <<>>]
    /\ poll' = [poll EXCEPT ![e] = NoPoll]
    /\ view' = [NoCat EXCEPT !.filePath = p, !.version = v, !.branch = b,
                             !.versionId = v]
    /\ IF repoId[e] = NoId
       THEN Finish(e, "NotTargeted")
       ELSE /\ outcome' = [outcome EXCEPT ![e] = "none"]
            /\ pc' = [pc EXCEPT ![e] = IF v = NoId THEN "catHead" ELSE "catVersion"]
            /\ UNCHANGED call
    /\ UNCHANGED <<impl, repoId, capId, repos, versions, room, wire>>

\* cat: one of its awaits: getBranchHead when no version was given,
\* getVersion, downloadDirectory with the lookup of filePath, downloadFile
CatStep(e) ==
    /\ pc[e] \in {"catHead", "catVersion", "catTree", "catFile"}
    /\ \E net \in {"ok", "fail"} :
          LET res == CASE pc[e] = "catHead" ->
                            BranchHeadRead(impl[e], repoId[e], view.branch, net)
                       [] pc[e] = "catVersion" ->
                            getVersion(repoId[e], view.versionId, net)
                       [] pc[e] = "catTree" ->
                            downloadDirectory(view.rootBlobId, net)
                       [] OTHER -> downloadFile(view.fileBlob, net)
              what == CASE pc[e] = "catHead" -> "head"
                        [] pc[e] = "catVersion" -> "version"
                        [] pc[e] = "catTree" -> "tree"
                        [] OTHER -> "file"
          IN IF res.threw
             THEN /\ Finish(e, "ReadFailed")
                  /\ trace' = [trace EXCEPT ![e] = Append(@, what \o "fail")]
                  /\ UNCHANGED view
             ELSE /\ trace' = [trace EXCEPT ![e] = Append(@, what)]
                  /\ CASE pc[e] = "catHead" ->
                            /\ view' = [view EXCEPT !.versionId = res.value]
                            /\ pc' = [pc EXCEPT ![e] = "catVersion"]
                            /\ UNCHANGED <<outcome, call>>
                       [] pc[e] = "catVersion" ->
                            /\ view' = [view EXCEPT
                                  !.rootBlobId = res.value.rootBlobId]
                            /\ pc' = [pc EXCEPT ![e] = "catTree"]
                            /\ UNCHANGED <<outcome, call>>
                       [] pc[e] = "catTree" ->
                            LET fileInfo == ObjectGet(res.value, view.filePath) IN
                            IF IsFile(fileInfo)
                            THEN /\ view' = [view EXCEPT
                                       !.fileBlob = fileInfo.blobId]
                                 /\ pc' = [pc EXCEPT ![e] = "catFile"]
                                 /\ UNCHANGED <<outcome, call>>
                            ELSE /\ Finish(e, "NotFound")
                                 /\ UNCHANGED view
                       [] OTHER ->
                            /\ view' = [view EXCEPT
                                  !.content = TextDecode(res.value),
                                  !.returned = TRUE]
                            /\ Finish(e, "ok")
    /\ UNCHANGED <<impl, repoId, capId, op, poll, versionId, repos, versions,
                   room, wire>>

\* an entry of a tree that is a directory
DirectoryEntry(p) ==
    [path |-> p, name |-> FileName(p), type |-> "directory",
     blobId |-> NoBlob, size |-> 0]

\* the trees cat is run on: a.txt absent, a directory, or a file of plain
\* text, of text with a byte order mark, or of bytes that are no text;
\* src/b.ts absent or a file
CatTrees ==
    { a \o b :
        a \in {<<>>, <<DirectoryEntry(PathA)>>} \cup
              {buildDirectoryTree(<<[path |-> PathA, blobId |-> FileBlob(d),
                                     size |-> Len(d)]>>) :
                  d \in {DataHi, TextMarked, DataRaw}},
        b \in {<<>>, buildDirectoryTree(<<[path |-> PathB, blobId |-> FileBlob(DataX),
                                           size |-> Len(DataX)]>>)} }

\* a repository of two commits with any two such trees, main at the second,
\* dev without a head
InitCat ==
    /\ EngineTargeted
    /\ impl[1] = "node"
    /\ room = 0
    /\ wire = NoWire
    /\ view = NoView
    /\ repos = <<[NewRepository("proj", 1) EXCEPT !.branches["main"] = 2,
                                                  !.versionCount = 2]>>
    /\ \E t1, t2 \in CatTrees :
          versions = <<[RootVersion EXCEPT !.rootBlobId = TreeBlob(t1)],
                       [RootVersion EXCEPT !.rootBlobId = TreeBlob(t2),
                                           !.parents = <<1>>]>>

NextCat ==
    \/ \E p \in {PathA, PathB, PathCtor}, v \in 0..3, b \in Branches :
          CatCall(1, p, v, b)
    \/ CatStep(1)

SpecCat == InitCat /\ [][NextCat]_vars

(***************************************************************************)
(* VersionFSClient.checkout of the Node client.  The file system is the    *)
(* set of the files it holds, each under its full path; a path is the list *)
(* of its segments, the empty list the empty string.                       *)
(***************************************************************************)
\* what a caller may pass as target: a branch name, or the id of a commit
\* as a string
Targets == Branches \cup {"v1", "v2", "v3"}

\* the commit whose id the string is, none for a string that is no id
IdOfTarget(t) ==
    CASE t = "v1" -> 1 [] t = "v2" -> 2 [] t = "v3" -> 3 [] OTHER -> NoId

DirOut == <<"out">>
DirEmpty == <<>>

DataOld == <<111, 108, 100>>
PathZ == <<"z.txt">>

\* `${outputDir}/${path}`
FullPath(outputDir, p) == outputDir \o p

\* fullPath.substring(0, fullPath.lastIndexOf('/')) is not the empty string:
\* it is empty when the only '/' of fullPath is the one the template puts
\* after an empty outputDir
DirNamed(outputDir, p) == ~(outputDir = <<>> /\ Len(p) = 1)

\* a write that leaves no other file in place
WriteFileAlone(disk, at, data) == {[at |-> at, data |-> data]}

\* fs.writeFileSync(fullPath, data)
WriteFile(disk, at, data) ==
    {f \in disk : f.at # at} \cup {[at |-> at, data |-> data]}

\* the loop over Object.entries(tree): the next entry at or after i that
\* is a file with a blob id, Len(tree) + 1 when there is none
RECURSIVE NextFile(_, _)
NextFile(tree, i) ==
    IF i > Len(tree) THEN i
    ELSE IF tree[i].type = "file" /\ tree[i].blobId # NoBlob THEN i
    ELSE NextFile(tree, i + 1)

NoCheckout ==
    [op |-> "checkout", target |-> "main", outputDir |-> DirOut,
     versionId |-> NoId, rootBlobId |-> NoBlob, tree |-> <<>>, i |-> 0,
     disk |-> {}, before |-> {}, returned |-> FALSE]

\* checkout(target, outputDir), up to the first await
CheckoutCall(e, t, d) ==
    /\ Idle(e)
    /\ impl[e] = "node"
    /\ view # NoView
    /\ op' = [op EXCEPT ![e] = "checkout"]
    /\ versionId' = [versionId EXCEPT ![e] = NoId]
    /\ trace' = [trace EXCEPT ![e] = <<>>]
    /\ poll' = [poll EXCEPT ![e] = NoPoll]
    /\ view' = [NoCheckout EXCEPT !.target = t, !.outputDir = d,
                                  !.disk = view.disk, !.before = view.disk]
    /\ IF repoId[e] = NoId
       THEN Finish(e, "NotTargeted")
       ELSE /\ outcome' = [outcome EXCEPT ![e] = "none"]
            /\ pc' = [pc EXCEPT ![e] = "coHead"]
            /\ UNCHANGED call
    /\ UNCHANGED <<impl, repoId, capId, repos, versions, room, wire>>

\* checkout: try { versionId = await getBranchHead(repoId, target) }
\* catch { versionId = target }
CheckoutHead(e) ==
    /\ pc[e] = "coHead"
    /\ \E net \in {"ok", "fail"} :
          LET res == BranchHeadRead(impl[e], repoId[e], view.target, net) IN
          /\ trace' = [trace EXCEPT ![e] =
                Append(@, IF res.threw THEN "headfail" ELSE "head")]
          /\ view' = [view EXCEPT !.versionId =
                IF res.threw THEN IdOfTarget(view.target) ELSE res.value]
    /\ pc' = [pc EXCEPT ![e] = "coVersion"]
    /\ UNCHANGED <<impl, repoId, capId, op, call, poll, versionId, outcome,
                   repos, versions, room, wire>>

\* checkout: getVersion, then downloadDirectory, then the loop: one
\* downloadFile and, when the directory has a name, one writeFileSync
CheckoutStep(e) ==
    /\ pc[e] \in {"coVersion", "coTree", "coFile"}
    /\ \E net \in {"ok", "fail"} :
          LET res == CASE pc[e] = "coVersion" ->
                            getVersion(repoId[e], view.versionId, net)
                       [] pc[e] = "coTree" ->
                            downloadDirectory(view.rootBlobId, net)
                       [] OTHER -> downloadFile(view.tree[view.i].blobId, net)
              what == CASE pc[e] = "coVersion" -> "version"
                        [] pc[e] = "coTree" -> "tree"
                        [] OTHER -> "file"
          IN IF res.threw
             THEN /\ Finish(e, "ReadFailed")
                  /\ trace' = [trace EXCEPT ![e] = Append(@, what \o "fail")]
                  /\ UNCHANGED view
             ELSE /\ trace' = [trace EXCEPT ![e] = Append(@, what)]
                  /\ CASE pc[e] = "coVersion" ->
                            /\ view' = [view EXCEPT
                                  !.rootBlobId = res.value.rootBlobId]
                            /\ pc' = [pc EXCEPT ![e] = "coTree"]
                            /\ UNCHANGED <<outcome, call>>
                       [] pc[e] = "coTree" ->
                            LET first == NextFile(res.value, 1) IN
                            IF first <= Len(res.value)
                            THEN /\ view' = [view EXCEPT !.tree = res.value,
                                                         !.i = first]
                                 /\ pc' = [pc EXCEPT ![e] = "coFile"]
                                 /\ UNCHANGED <<outcome, call>>
                            ELSE /\ view' = [view EXCEPT !.tree = res.value,
                                                         !.i = first,
                                                         !.returned = TRUE]
                                 /\ Finish(e, "ok")
                       [] OTHER ->
                            LET p == view.tree[view.i].path
                                written ==
                                   IF DirNamed(view.outputDir, p)
                                   THEN WriteFile(view.disk,
                                           FullPath(view.outputDir, p), res.value)
                                   ELSE view.disk
                                next == NextFile(view.tree, view.i + 1)
                            IN IF next <= Len(view.tree)
                               THEN /\ view' = [view EXCEPT !.disk = written,
                                                            !.i = next]
                                    /\ UNCHANGED <<pc, outcome, call>>
                               ELSE /\ view' = [view EXCEPT !.disk = written,
                                                            !.i = next,
                                                            !.returned = TRUE]
                                    /\ Finish(e, "ok")
    /\ UNCHANGED <<impl, repoId, capId, op, poll, versionId, repos, versions,
                   room, wire>>

\* the trees checkout is run on: a.txt absent, a directory or a file;
\* src/b.ts absent or a file
CheckoutTrees ==
    { a \o b :
        a \in {<<>>, <<DirectoryEntry(PathA)>>,
               buildDirectoryTree(<<[path |-> PathA, blobId |-> FileBlob(DataHi),
                                     size |-> Len(DataHi)]>>)},
        b \in {<<>>, buildDirectoryTree(<<[path |-> PathB, blobId |-> FileBlob(DataX),
                                           size |-> Len(DataX)]>>)} }

\* the files there may be before the first checkout
OldFiles ==
    { [at |-> FullPath(d, p), data |-> DataOld] :
         d \in {DirOut, DirEmpty}, p \in {PathA, PathZ} }

\* a repository of two commits with any two such trees, main at the second,
\* dev without a head, and a file system with any of the old files
InitCheckout ==
    /\ EngineTargeted
    /\ impl[1] = "node"
    /\ room = 0
    /\ wire = NoWire
    /\ \E old \in SUBSET OldFiles :
          view = [NoCheckout EXCEPT !.disk = old, !.before = old]
    /\ repos = <<[NewRepository("proj", 1) EXCEPT !.branches["main"] = 2,
                                                  !.versionCount = 2]>>
    /\ \E t1, t2 \in CheckoutTrees :
          versions = <<[RootVersion EXCEPT !.rootBlobId = TreeBlob(t1)],
                       [RootVersion EXCEPT !.rootBlobId = TreeBlob(t2),
                                           !.parents = <<1>>]>>

NextCheckout ==
    \/ \E t \in Targets, d \in {DirOut, DirEmpty} : CheckoutCall(1, t, d)
    \/ CheckoutHead(1)
    \/ CheckoutStep(1)

SpecCheckout == InitCheckout /\ [][NextCheckout]_vars

(***************************************************************************)
(* VersionFSClient.buildDirectoryTree on any list of uploaded files.       *)
(***************************************************************************)
MaxFiles == 3

\* the uploaded files a list may hold
UploadedFiles ==
    { [path |-> p, blobId |-> FileBlob(d), size |-> Len(d)] :
         p \in {PathA, PathB}, d \in {DataHi, DataX} }

InitBuild ==
    /\ EngineAtRest
    /\ repos = <<>>
    /\ versions = <<>>
    /\ wire = NoWire
    /\ \E n \in 0..MaxFiles : \E files \in [1..n -> UploadedFiles] :
          view = [op |-> "buildDirectoryTree", files |-> files,
                  tree |-> <<>>, outcome |-> "none"]

\* const tree = this.buildDirectoryTree(uploadedFiles)
BuildTree ==
    /\ view.op = "buildDirectoryTree"
    /\ view.outcome = "none"
    /\ view' = [view EXCEPT !.tree = buildDirectoryTree(view.files),
                            !.outcome = "ok"]
    /\ UNCHANGED <<engineVars, repos, versions, wire>>

NextBuild == BuildTree

SpecBuild == InitBuild /\ [][NextBuild]_vars

(***************************************************************************)
(* WalrusService.uploadDirectory and downloadDirectory on the tree that    *)
(* buildDirectoryTree makes of a list of entries.  The text of a tree is   *)
(* the JSON JSON.stringify writes, kept as its tokens: the braces, colons  *)
(* and commas, the string literals by the string they stand for, the       *)
(* number literals by their value.  The text starts with a brace and       *)
(* JSON.stringify escapes what is not well-formed, so TextEncoder and      *)
(* TextDecoder hand the tokens on as they are.                             *)
(***************************************************************************)
JsonSym(c) == [t |-> c, v |-> <<>>]
JsonStr(s) == [t |-> "str", v |-> s]
JsonNum(n) == [t |-> "num", v |-> n]

\* the members of a FileMetadata literal, in the order it is written
EntryFields == <<"path", "name", "type", "blobId", "size">>

\* one member of an entry: "name": value
JsonField(entry, f) ==
    <<JsonStr(f), JsonSym(":"),
      IF f = "size" THEN JsonNum(entry[f]) ELSE JsonStr(entry[f])>>

RECURSIVE JsonFields(_, _)
JsonFields(entry, n) ==
    IF n = 0 THEN <<>>
    ELSE JsonFields(entry, n - 1)
            \o (IF n > 1 THEN <<JsonSym(",")>> ELSE <<>>)
            \o JsonField(entry, EntryFields[n])

JsonEntry(entry) ==
    <<JsonSym("{")>> \o JsonFields(entry, Len(EntryFields)) \o <<JsonSym("}")>>

RECURSIVE JsonMembers(_, _)
JsonMembers(tree, n) ==
    IF n = 0 THEN <<>>
    ELSE JsonMembers(tree, n - 1)
            \o (IF n > 1 THEN <<JsonSym(",")>> ELSE <<>>)
            \o <<JsonStr(tree[n].path), JsonSym(":")>> \o JsonEntry(tree[n])

\* JSON.stringify(directory, null, 2): the members the object holds itself,
\* in the order it holds them
JSONStringify(tree) ==
    <<JsonSym("{")>> \o JsonMembers(tree, Len(tree)) \o <<JsonSym("}")>>

\* the members of one object of the text from token i on, up to its closing
\* brace: the name/value pairs read and the token after the brace
RECURSIVE JsonReadFields(_, _, _)
JsonReadFields(text, i, acc) ==
    IF i + 3 > Len(text) \/ text[i].t # "str" \/ text[i + 1].t # ":"
       \/ text[i + 2].t \notin {"str", "num"}
    THEN [threw |-> TRUE, fields |-> acc, next |-> i]
    ELSE LET got == Append(acc, [name |-> text[i].v, value |-> text[i + 2].v])
         IN IF text[i + 3].t = "}"
            THEN [threw |-> FALSE, fields |-> got, next |-> i + 4]
            ELSE IF text[i + 3].t = ","
            THEN JsonReadFields(text, i + 4, got)
            ELSE [threw |-> TRUE, fields |-> got, next |-> i]

\* the object a list of name/value pairs makes: a name met again replaces
\* the value
JsonObject(fields) ==
    [n \in {fields[j].name : j \in DOMAIN fields} |->
        fields[CHOOSE j \in DOMAIN fields :
                  /\ fields[j].name = n
                  /\ \A l \in DOMAIN fields : fields[l].name = n => l <= j].value]

\* CreateDataProperty(obj, key, value): the parsed object holds every key
\* itself, a key met again keeps its place and takes the new value
JsonDefine(obj, key, value) ==
    IF \E k \in DOMAIN obj : obj[k].key = key
    THEN [k \in DOMAIN obj |->
            IF obj[k].key = key THEN [key |-> key, value |-> value] ELSE obj[k]]
    ELSE Append(obj, [key |-> key, value |-> value])

RECURSIVE JsonReadMembers(_, _, _)
JsonReadMembers(text, i, acc) ==
    IF i + 3 > Len(text) \/ text[i].t # "str" \/ text[i + 1].t # ":"
       \/ text[i + 2].t # "{"
    THEN [threw |-> TRUE, value |-> acc]
    ELSE LET inner == IF text[i + 3].t = "}"
                      THEN [threw |-> FALSE, fields |-> <<>>, next |-> i + 4]
                      ELSE JsonReadFields(text, i + 3, <<>>)
             got == JsonDefine(acc, text[i].v, JsonObject(inner.fields))
         IN IF inner.threw \/ inner.next > Len(text)
            THEN [threw |-> TRUE, value |-> acc]
            ELSE IF text[inner.next].t = "}" /\ inner.next = Len(text)
            THEN [threw |-> FALSE, value |-> got]
            ELSE IF text[inner.next].t = ","
            THEN JsonReadMembers(text, inner.next + 1, got)
            ELSE [threw |-> TRUE, value |-> acc]

\* JSON.parse(jsonData): the key/value pairs of the object, or a SyntaxError
JSONParse(text) ==
    IF Len(text) < 2 \/ text[1].t # "{"
    THEN [threw |-> TRUE, value |-> <<>>]
    ELSE IF Len(text) = 2
    THEN [threw |-> text[2].t # "}", value |-> <<>>]
    ELSE JsonReadMembers(text, 2, <<>>)

\* the entries a list may hold
TreeFiles ==
    { [path |-> p, blobId |-> FileBlob(d), size |-> Len(d)] :
         p \in {PathA, PathB, PathProto}, d \in {DataHi, DataX} }

NoText == <<>>

InitCodec ==
    /\ EngineAtRest
    /\ repos = <<>>
    /\ versions = <<>>
    /\ wire = NoWire
    /\ \E n \in 0..MaxFiles : \E files \in [1..n -> TreeFiles] :
          view = [op |-> "uploadDirectory", files |-> files, tree |-> <<>>,
                  text |-> NoText, parsed |-> <<>>, step |-> "build",
                  outcome |-> "none"]

\* const tree = this.buildDirectoryTree(uploadedFiles)
CodecBuild ==
    /\ view.step = "build"
    /\ view' = [view EXCEPT !.tree = buildDirectoryTree(view.files),
                            !.step = "upload"]
    /\ UNCHANGED <<engineVars, repos, versions, wire>>

\* uploadDirectory(tree): uploadFile of the JSON text
CodecUpload ==
    /\ view.step = "upload"
    /\ \E net \in {"ok", "fail"} :
          IF net = "ok"
          THEN view' = [view EXCEPT !.text = JSONStringify(view.tree),
                                    !.step = "download"]
          ELSE view' = [view EXCEPT !.step = "done",
                                    !.outcome = "UploadFailed"]
    /\ UNCHANGED <<engineVars, repos, versions, wire>>

\* downloadDirectory(blobId): downloadFile, TextDecoder, JSON.parse
CodecDownload ==
    /\ view.step = "download"
    /\ \E net \in {"ok", "fail"} :
          LET got == JSONParse(view.text) IN
          IF net = "fail" \/ got.threw
          THEN view' = [view EXCEPT !.step = "done",
                                    !.outcome = "DownloadFailed"]
          ELSE view' = [view EXCEPT !.parsed = got.value, !.step = "done",
                                    !.outcome = "ok"]
    /\ UNCHANGED <<engineVars, repos, versions, wire>>

NextCodec == CodecBuild \/ CodecUpload \/ CodecDownload

SpecCodec == InitCodec /\ [][NextCodec]_vars

(***************************************************************************)
(* WalrusService.uploadFile against any answer of the publisher: the       *)
(* request may fail in transport, the answer has a status, and its body is *)
(* JSON or not; a JSON body is a WalrusUploadResponse, each of whose two   *)
(* members is there or not.                                                *)
(***************************************************************************)
Absent == [present |-> FALSE, blobId |-> NoBlob]
Present(b) == [present |-> TRUE, blobId |-> b]

Statuses == {200, 201, 299, 300, 404, 500}

\* response.ok
ResponseOk(status) == status \in 200..299

\* the blob ids a publisher may answer with
AnswerIds == {FileBlob(DataHi), FileBlob(DataX)}

Answers ==
    [transport : {"ok", "fail"}, status : Statuses, json : BOOLEAN,
     newlyCreated : {Absent} \cup {Present(b) : b \in AnswerIds},
     alreadyCertified : {Absent} \cup {Present(b) : b \in AnswerIds}]

\* a choice of id that looks at alreadyCertified first
blobIdCertifiedFirst(result) ==
    IF result.alreadyCertified.present
    THEN [threw |-> FALSE, blobId |-> result.alreadyCertified.blobId]
    ELSE IF result.newlyCreated.present
    THEN [threw |-> FALSE, blobId |-> result.newlyCreated.blobId]
    ELSE [threw |-> TRUE, blobId |-> NoBlob]

\* if (result.newlyCreated) ... else if (result.alreadyCertified) ... else
\* throw new Error("Unexpected response format")
blobIdOf(result) ==
    IF result.newlyCreated.present
    THEN [threw |-> FALSE, blobId |-> result.newlyCreated.blobId]
    ELSE IF result.alreadyCertified.present
    THEN [threw |-> FALSE, blobId |-> result.alreadyCertified.blobId]
    ELSE [threw |-> TRUE, blobId |-> NoBlob]

\* uploadFile(data, epochs): what it returns or that it throws
uploadFile(answer) ==
    IF answer.transport = "fail" THEN [threw |-> TRUE, blobId |-> NoBlob]
    ELSE IF ~ResponseOk(answer.status) THEN [threw |-> TRUE, blobId |-> NoBlob]
    ELSE IF ~answer.json THEN [threw |-> TRUE, blobId |-> NoBlob]
    ELSE blobIdOf(answer)

InitUpload ==
    /\ EngineAtRest
    /\ repos = <<>>
    /\ versions = <<>>
    /\ wire = NoWire
    /\ \E answer \in Answers :
          view = [op |-> "uploadFile", answer |-> answer, outcome |-> "none",
                  blobId |-> NoBlob]

UploadFileCall ==
    /\ view.op = "uploadFile"
    /\ view.outcome = "none"
    /\ LET res == uploadFile(view.answer) IN
       view' = [view EXCEPT !.outcome = IF res.threw THEN "threw" ELSE "ok",
                            !.blobId = res.blobId]
    /\ UNCHANGED <<engineVars, repos, versions, wire>>

NextUpload == UploadFileCall

SpecUpload == InitUpload /\ [][NextUpload]_vars

(***************************************************************************)
(* The decoders of the wallet-based SuiService for the return value of a   *)
(* ledger read: parseDevInspectResult (behind getBranchHead) and the type  *)
(* test of getVersion.  A return value is a pair of bytes and a type tag;  *)
(* a type tag is kept as the parts it is written from, so that includes()  *)
(* can be asked of it.                                                     *)
(***************************************************************************)
TypeAddress == <<"address">>
TypeId == <<"0x2::object::ID">>
TypeU64 == <<"u64">>
TypeBool == <<"bool">>
TypeBytes == <<"vector<u8>">>
TypeString == <<"0x1::string::String">>
TypeVersionNode == <<"0xpkg", "::version_fs::VersionNode">>
TypeVersionNodes == <<"vector<", "0xpkg", "::version_fs::VersionNode", ">">>

MoveTypes ==
    {TypeAddress, TypeId, TypeU64, TypeBool, TypeBytes, TypeString,
     TypeVersionNode, TypeVersionNodes}

\* moveType.includes('::version_fs::VersionNode')
TypeIncludes(moveType, part) == \E i \in DOMAIN moveType : moveType[i] = part

\* new TextDecoder("utf-8", { fatal: true }).decode(bytes) throws
RECURSIVE Utf8Invalid(_)
Utf8Invalid(b) ==
    IF b = <<>> THEN FALSE
    ELSE IF AsciiRun(b) > 0 THEN Utf8Invalid(SubSeq(b, AsciiRun(b) + 1, Len(b)))
    ELSE IF b[1] \in 194..223 /\ Len(b) >= 2 /\ b[2] \in 128..191
    THEN Utf8Invalid(SubSeq(b, 3, Len(b)))
    ELSE IF b[1] \in 224..239 /\ Len(b) >= 3 /\ b[2] \in 128..191
            /\ b[3] \in 128..191
            /\ (b[1] = 224 => b[2] >= 160) /\ (b[1] = 237 => b[2] <= 159)
    THEN Utf8Invalid(SubSeq(b, 4, Len(b)))
    ELSE TRUE

\* what a decoder gives back: a value of one kind, or it throws
Decoded(kind, flag, seq) ==
    [threw |-> FALSE, kind |-> kind, flag |-> flag, seq |-> seq]

DecodeThrows == [threw |-> TRUE, kind |-> "none", flag |-> FALSE, seq |-> <<>>]

\* case 'bool': return uint8Bytes[0] === 1
boolOf(bytes) == Len(bytes) > 0 /\ bytes[1] = 1

\* default: return bytesToHex(uint8Bytes)
defaultOf(bytes) == Decoded("hex", FALSE, bytesToHex(bytes))

\* SuiService.parseDevInspectResult on the first return value, if there is
\* one; a u64 is kept as its eight bytes, lowest first
parseDevInspectResult(rv) ==
    IF ~rv.some THEN DecodeThrows
    ELSE IF rv.moveType \in {TypeAddress, TypeId}
    THEN Decoded("hex", FALSE, bytesToHex(rv.bytes))
    ELSE IF rv.moveType = TypeU64
    THEN IF Len(rv.bytes) # U64Width THEN DecodeThrows
         ELSE Decoded("u64", FALSE, rv.bytes)
    ELSE IF rv.moveType = TypeBool
    THEN Decoded("bool", boolOf(rv.bytes), <<>>)
    ELSE IF rv.moveType = TypeBytes
    THEN IF Utf8Invalid(rv.bytes)
         THEN Decoded("hex", FALSE, bytesToHex(rv.bytes))
         ELSE Decoded("text", FALSE, TextDecode(rv.bytes))
    ELSE defaultOf(rv.bytes)

\* SuiService.getVersion, steps 3 and 4, on the first return value
getVersionDecode(rv) ==
    IF ~rv.some THEN DecodeThrows
    ELSE IF ~TypeIncludes(rv.moveType, "::version_fs::VersionNode")
    THEN DecodeThrows
    ELSE IF parseVersionNode(rv.bytes, FALSE).outcome # "ok" THEN DecodeThrows
    ELSE Decoded("VersionNode", FALSE,
                 parseVersionNode(rv.bytes, FALSE).versionId)

\* the bytes a read may answer with
NodeBytes ==
    EncodeVersionNode([rootBlobId |-> TextAb, parents |-> <<IdBytes(1)>>,
                       author |-> IdBytes(7), timestamp |-> TimeA,
                       message |-> TextHi, versionId |-> IdBytes(2)])

InspectBytes ==
    {<<>>, <<0>>, <<1>>, <<2>>, <<255>>, TextHi, TextMarked, TimeA, TimeB,
     IdBytes(1), NodeBytes}

NoReturn == [some |-> FALSE, bytes |-> <<>>, moveType |-> <<>>]

ReturnValues ==
    {NoReturn} \cup [some : {TRUE}, bytes : InspectBytes, moveType : MoveTypes]

InitInspect ==
    /\ EngineAtRest
    /\ repos = <<>>
    /\ versions = <<>>
    /\ \E rv \in ReturnValues : wire = rv
    /\ \E o \in {"getBranchHead", "getVersion"} :
          view = [op |-> o, outcome |-> "none", result |-> DecodeThrows]

\* getBranchHead: return this.parseDevInspectResult(result) as string
InspectRead ==
    /\ view.op = "getBranchHead"
    /\ view.outcome = "none"
    /\ LET res == parseDevInspectResult(wire) IN
       view' = [view EXCEPT !.outcome = IF res.threw THEN "threw" ELSE "ok",
                            !.result = res]
    /\ UNCHANGED <<engineVars, repos, versions, wire>>

\* getVersion on the return value of the read
InspectVersion ==
    /\ view.op = "getVersion"
    /\ view.outcome = "none"
    /\ LET res == getVersionDecode(wire) IN
       view' = [view EXCEPT !.outcome = IF res.threw THEN "threw" ELSE "ok",
                            !.result = res]
    /\ UNCHANGED <<engineVars, repos, versions, wire>>

NextInspect == InspectRead \/ InspectVersion

SpecInspect == InitInspect /\ [][NextInspect]_vars

(***************************************************************************)
(* The calls that only read, side by side: log of both clients, and cat,   *)
(* diff, checkout and status of the Node client, on an engine that is      *)
(* targeted or not.                                                        *)
(***************************************************************************)
\* SuiService.getRepository(repoId): getObject, then its fields
getRepository(r, net) ==
    IF net = "fail" \/ ~RepoExists(r)
    THEN [threw |-> TRUE, value |-> NewRepository("", NoId)]
    ELSE [threw |-> FALSE, value |-> repos[r]]

NoStatus ==
    [op |-> "status", name |-> "", owner |-> NoId, versionCount |-> 0,
     returned |-> FALSE]

\* a status that forgets the capability of the engine
StatusCallForgets(e) ==
    /\ Idle(e)
    /\ impl[e] = "node"
    /\ op' = [op EXCEPT ![e] = "status"]
    /\ capId' = [capId EXCEPT ![e] = NoId]
    /\ versionId' = [versionId EXCEPT ![e] = NoId]
    /\ trace' = [trace EXCEPT ![e] = <<>>]
    /\ poll' = [poll EXCEPT ![e] = NoPoll]
    /\ view' = NoStatus
    /\ IF repoId[e] = NoId
       THEN Finish(e, "NotTargeted")
       ELSE /\ outcome' = [outcome EXCEPT ![e] = "none"]
            /\ pc' = [pc EXCEPT ![e] = "status"]
            /\ UNCHANGED call
    /\ UNCHANGED <<impl, repoId, repos, versions, room, wire>>

\* status(), up to the await of getRepository
StatusCall(e) ==
    /\ Idle(e)
    /\ impl[e] = "node"
    /\ op' = [op EXCEPT ![e] = "status"]
    /\ versionId' = [versionId EXCEPT ![e] = NoId]
    /\ trace' = [trace EXCEPT ![e] = <<>>]
    /\ poll' = [poll EXCEPT ![e] = NoPoll]
    /\ view' = NoStatus
    /\ IF repoId[e] = NoId
       THEN Finish(e, "NotTargeted")
       ELSE /\ outcome' = [outcome EXCEPT ![e] = "none"]
            /\ pc' = [pc EXCEPT ![e] = "status"]
            /\ UNCHANGED call
    /\ UNCHANGED <<impl, repoId, capId, repos, versions, room, wire>>

\* status: const repo = await this.sui.getRepository(this.repoId), then the
\* lines it logs
StatusStep(e) ==
    /\ pc[e] = "status"
    /\ \E net \in {"ok", "fail"} :
          LET res == getRepository(repoId[e], net) IN
          IF res.threw
          THEN /\ Finish(e, "ReadFailed")
               /\ trace' = [trace EXCEPT ![e] = Append(@, "repofail")]
               /\ UNCHANGED view
          ELSE /\ Finish(e, "ok")
               /\ trace' = [trace EXCEPT ![e] = Append(@, "repo")]
               /\ view' = [view EXCEPT !.name = res.value.name,
                                       !.owner = res.value.owner,
                                       !.versionCount = res.value.versionCount,
                                       !.returned = TRUE]
    /\ UNCHANGED <<impl, repoId, capId, op, poll, versionId, repos, versions,
                   room, wire>>

\* a repository of two commits, the second with any of the trees, main at
\* the second; an engine of either client, targeted at it or not; the
\* caller uses one of the operations, again and again
InitReads ==
    /\ impl \in {[e \in Engines |-> i] : i \in Impls}
    /\ \E r \in {NoId, 1} :
          /\ repoId = [e \in Engines |-> r]
          /\ capId = [e \in Engines |-> IF r = NoId THEN NoId ELSE CapOf(r)]
    /\ pc = [e \in Engines |-> "idle"]
    /\ op = [e \in Engines |-> "none"]
    /\ call = [e \in Engines |-> NoCall]
    /\ poll = [e \in Engines |-> NoPoll]
    /\ versionId = [e \in Engines |-> NoId]
    /\ outcome = [e \in Engines |-> "none"]
    /\ trace = [e \in Engines |-> <<>>]
    /\ room = 0
    /\ wire = NoWire
    /\ view \in {NoLog, NoCat, NoDiff, NoStatus} \cup
                {[NoCheckout EXCEPT !.disk = old, !.before = old] :
                    old \in {{}, OldFiles}}
    /\ repos = <<[NewRepository("proj", 1) EXCEPT !.branches["main"] = 2,
                                                  !.versionCount = 2]>>
    /\ \E t2 \in CheckoutTrees :
          versions = <<RootVersion,
                       [RootVersion EXCEPT !.rootBlobId = TreeBlob(t2),
                                           !.parents = <<1>>]>>

NextReads ==
    \/ view.op = "log" /\ \E b \in Branches, n \in 0..MaxLimit : LogCall(1, b, n)
    \/ LogHead(1)
    \/ LogFetch(1)
    \/ view.op = "cat" /\ \E p \in {PathA, PathB}, v \in 0..3, b \in Branches :
                             CatCall(1, p, v, b)
    \/ CatStep(1)
    \/ view.op = "diff" /\ \E a, b \in 1..2 : DiffCall(1, a, b)
    \/ DiffStep(1)
    \/ view.op = "checkout" /\ \E t \in Targets, d \in {DirOut, DirEmpty} :
                                  CheckoutCall(1, t, d)
    \/ CheckoutHead(1)
    \/ CheckoutStep(1)
    \/ view.op = "status" /\ StatusCall(1)
    \/ StatusStep(1)

SpecReads == InitReads /\ [][NextReads]_vars

(***************************************************************************)
(* The two loops of log, the while loop of the Node client and the for     *)
(* loop of the frontend client, run on one ledger from one head with one   *)
(* limit.  Each turn is one await of getVersion.                           *)
(***************************************************************************)
\* a loop condition that lets the turn after the last one in
ForGoesOnInclusive(i, limit, currentId) == i <= limit /\ currentId # NoId

\* for (let i = 0; i < limit && currentId; i++)
ForGoesOn(i, limit, currentId) == i < limit /\ currentId # NoId

\* the locals of a loop: currentId, its counter, the ids of the commits
\* pushed, and whether it has left the loop
LoopAt(h) == [currentId |-> h, count |-> 0, ids |-> <<>>, done |-> FALSE]

\* any ledger of log, and a call of log of each client with one head (a
\* commit or the empty id) and one limit
InitLoops ==
    /\ EngineTargeted
    /\ room = 0
    /\ wire = NoWire
    /\ \E n \in 1..MaxLogVersions :
          /\ versions \in [1..n -> [repo : {1}, rootBlobId : {TreeBlob(<<>>)},
                                    parents : UNION {ParentChoices(k) : k \in 1..n},
                                    author : {1}]]
          /\ \A k \in 1..n : versions[k].parents \in ParentChoices(k)
          /\ \E h \in 0..n, limit \in 0..MaxLimit :
                /\ repos = <<[NewRepository("proj", 1) EXCEPT
                                 !.branches["main"] = h, !.versionCount = n]>>
                /\ view = [op |-> "logs", head |-> h, limit |-> limit,
                           node |-> LoopAt(h), frontend |-> LoopAt(h)]

\* Node client: one test of the while condition and, if it holds, the body
NodeTurn ==
    /\ view.op = "logs"
    /\ ~view.node.done
    /\ LET at == view.node IN
       IF ~LogGoesOn(at.currentId, at.count, view.limit)
       THEN view' = [view EXCEPT !.node.done = TRUE]
       ELSE LET version == getVersion(1, at.currentId, "ok").value IN
            IF Len(version.parents) > 0
            THEN view' = [view EXCEPT
                    !.node.ids = Append(@, at.currentId),
                    !.node.currentId = version.parents[1],
                    !.node.count = @ + 1]
            ELSE view' = [view EXCEPT
                    !.node.ids = Append(@, at.currentId),
                    !.node.done = TRUE]
    /\ UNCHANGED <<engineVars, repos, versions, wire>>

\* frontend client: one test of the for condition and, if it holds, the
\* body and i++
FrontendTurn ==
    /\ view.op = "logs"
    /\ ~view.frontend.done
    /\ LET at == view.frontend IN
       IF ~ForGoesOn(at.count, view.limit, at.currentId)
       THEN view' = [view EXCEPT !.frontend.done = TRUE]
       ELSE LET version == getVersion(1, at.currentId, "ok").value IN
            view' = [view EXCEPT
               !.frontend.ids = Append(@, at.currentId),
               !.frontend.currentId = FirstParent(version.parents),
               !.frontend.count = @ + 1]
    /\ UNCHANGED <<engineVars, repos, versions, wire>>

NextLoops == NodeTurn \/ FrontendTurn

SpecLoops == InitLoops /\ [][NextLoops]_vars

(***************************************************************************)
(* Properties.                                                             *)
(***************************************************************************)
Last(s) == s[Len(s)]

Has(s, X) == \E i \in DOMAIN s : s[i] \in X

Count(s, X) == Cardinality({i \in DOMAIN s : s[i] \in X})

\* n acknowledged file uploads
FileAcks(n) == [i \in 1..n |-> "file"]

HeadReads == {"head", "headfail"}

\* this step is engine e's ledger commit landing
Lands(e) ==
    /\ pc[e] \in {"submit", "initCommit"}
    /\ pc'[e] = "idle"
    /\ Len(versions') = Len(versions) + 1

NewVersion == versions'[Len(versions')]

\* the head of branch b of repository r after this step
HeadAfter(r, b) == repos'[r].branches[b]

Targeted(e) == repoId[e] # NoId /\ capId[e] # NoId

\* C1, the state a failed file upload leaves: the call has thrown the
\* upload error, and the failed upload is the last remote call it made.
FailedUploadEndsCall ==
    \A e \in Engines :
        Has(trace[e], {"filefail"}) =>
            /\ pc[e] = "idle"
            /\ outcome[e] = "UploadFailed"
            /\ Last(trace[e]) = "filefail"
            /\ ~Has(trace[e], {"tree", "treefail", "submit"} \cup HeadReads)

\* C1: if the upload of one of the files of a commit fails, the call
\* uploads no tree blob and submits no ledger commit: the branch heads and
\* the commits of the ledger are what they were.
C1_FailedUploadCreatesNothing ==
    /\ []FailedUploadEndsCall
    /\ [][\A e \in Engines :
            (pc[e] = "upload" /\ Has(trace'[e], {"filefail"})) =>
                (repos' = repos /\ versions' = versions)]_vars

\* C1 witness: the second file's upload failed after the first was
\* acknowledged, on a ledger that holds a commit.
C1_Witness ==
    /\ trace[1] = <<"file", "filefail">>
    /\ outcome[1] = "UploadFailed"
    /\ Len(versions) > 0

\* C2: a commit call that reaches the ledger write has made its remote
\* calls in this order: every file's upload acknowledged, then the tree
\* upload acknowledged, then the branch head read, then the ledger commit
\* submitted; the tree upload starts with no file upload outstanding.
C2_CommitOrder ==
    \A e \in Engines :
        op[e] = "commit" =>
            /\ pc[e] = "tree" =>
                  /\ Len(call[e].uploadedFiles) = Len(call[e].files)
                  /\ trace[e] = FileAcks(Len(call[e].files))
            /\ pc[e] = "head" =>
                  trace[e] = FileAcks(Len(call[e].files)) \o <<"tree">>
            /\ pc[e] = "submit" =>
                  \E h \in HeadReads :
                      trace[e] = FileAcks(Len(call[e].files)) \o <<"tree", h>>
            /\ Has(trace[e], {"submit"}) =>
                  \E n \in 0..Len(trace[e]), h \in HeadReads :
                      trace[e] = FileAcks(n) \o <<"tree", h, "submit">>

\* C2 witness: a commit of two files has reached the ledger.
C2_Witness ==
    /\ op[1] = "commit"
    /\ outcome[1] = "ok"
    /\ trace[1] = <<"file", "file", "tree", "head", "submit">>

\* C3: when the head read of a commit returned commit H, the ledger commit
\* is submitted on the requested branch with parents <<H>> and the blob id
\* of this call's tree upload as root; the write that lands leaves the
\* branch's head at the new commit.
C3_ParentIsHead ==
    [][\A e \in Engines :
          (/\ pc[e] = "submit"
           /\ Last(trace[e]) = "head"
           /\ call[e].parentId # NoId) =>
             /\ SubmitArgs(e).parents = <<call[e].parentId>>
             /\ call[e].parentId = BranchHead(repoId[e], call[e].branch)
             /\ SubmitArgs(e).rootBlobId =
                   TreeBlob(buildDirectoryTree(call[e].uploadedFiles))
             /\ SubmitArgs(e).rootBlobId.kind = "tree"
             /\ Lands(e) =>
                   /\ NewVersion.repo = repoId[e]
                   /\ NewVersion.parents = <<call[e].parentId>>
                   /\ NewVersion.rootBlobId = call[e].treeBlobId
                   /\ HeadAfter(repoId[e], call[e].branch) = Len(versions')
                   /\ \A b \in Branches \ {call[e].branch} :
                         HeadAfter(repoId[e], b) = BranchHead(repoId[e], b)]_vars

\* C3 witness: a commit on top of another has landed and is its branch's
\* head.
C3_Witness ==
    /\ op[1] = "commit"
    /\ outcome[1] = "ok"
    /\ Len(versions) = 2
    /\ versions[2].parents = <<1>>
    /\ versions[2].rootBlobId.entries # <<>>
    /\ \E b \in Branches : BranchHead(versions[2].repo, b) = 2

\* C4: a commit lands without parents only when its branch has no head;
\* when the branch has a head and reading it fails, no parentless commit
\* is created on the branch.
C4_ParentlessOnlyWithoutHead ==
    [][\A e \in Engines :
          (/\ pc[e] = "submit"
           /\ Lands(e)
           /\ BranchHead(repoId[e], call[e].branch) # NoId) =>
             NewVersion.parents # <<>>]_vars

\* C5: two engines commit on one branch of one repository, and the second
\* ledger write lands on a head that has moved since its engine read H:
\* the new commit has parents <<H>>, as has the commit that moved the head;
\* every commit the ledger held is still there, unchanged; the head is the
\* new commit.
C5_ForkKeepsBoth ==
    [][\A e \in Engines :
          (/\ Lands(e)
           /\ Last(trace[e]) = "head"
           /\ call[e].parentId # NoId) =>
             /\ NewVersion.parents = <<call[e].parentId>>
             /\ SubSeq(versions', 1, Len(versions)) = versions
             /\ HeadAfter(repoId[e], call[e].branch) = Len(versions')
             /\ LET head == BranchHead(repoId[e], call[e].branch) IN
                head # call[e].parentId =>
                   /\ head \in 1..Len(versions)
                   /\ versions'[head] = versions[head]
                   /\ versions[head].repo = repoId[e]]_vars

\* C5 witness: two sibling commits of two engines, both children of the
\* root commit, and the branch head at one of them.
C5_Witness ==
    /\ Len(versions) = 3
    /\ versions[2].parents = <<1>>
    /\ versions[3].parents = <<1>>
    /\ versions[2].author # versions[3].author
    /\ versions[2].rootBlobId # versions[3].rootBlobId
    /\ BranchHead(1, "main") \in {2, 3}

\* C6: commit and createBranch, called on an engine with no repository id
\* or no capability set, throw the not-targeted error before any blob
\* upload or ledger write.
C6_UntargetedFailsFirst ==
    \A e \in Engines :
        (op[e] \in {"commit", "createBranch"} /\ ~Targeted(e)) =>
            /\ pc[e] = "idle"
            /\ outcome[e] = "NotTargeted"
            /\ trace[e] = <<>>

\* C7: a targeted engine stays targeted, with repository id and capability
\* both set, over every step of every call but setRepoIds, whether the
\* call succeeds or fails; and an init that succeeded leaves the engine
\* targeted.
C7_StaysTargeted ==
    /\ [](\A e \in Engines :
            (op[e] = "init" /\ pc[e] = "idle" /\ outcome[e] = "ok") =>
                Targeted(e))
    /\ [][\A e \in Engines :
            (Targeted(e) /\ op'[e] # "setRepoIds") => Targeted(e)']_vars

\* C7 witness: an engine that setRepoIds had targeted has run an init that
\* failed in its lookup of the created objects, and is still targeted.
C7_Witness ==
    /\ op[1] = "init"
    /\ pc[1] = "idle"
    /\ outcome[1] = "FailedToFindTx"
    /\ Targeted(1)

\* C8: createRepository fails with the indexing-timeout error, the
\* transaction not being indexed yet, only after all of its InitialCount
\* lookups have been used.
C8_TimeoutAfterAllAttempts ==
    \A e \in Engines :
        (/\ op[e] = "init"
         /\ pc[e] = "idle"
         /\ outcome[e] = "FailedToFindTx"
         /\ Last(trace[e]) = "notindexed") =>
            Count(trace[e], PollAnswers) = InitialCount

\* C9: a failure of createRepository that is not the not-yet-indexed
\* condition is raised after the lookup that met it, and is not the
\* indexing-timeout error.
C9_OtherFailuresDistinct ==
    \A e \in Engines :
        (/\ op[e] = "init"
         /\ pc[e] = "idle"
         /\ outcome[e] \notin {"none", "ok"}
         /\ ~Has(trace[e], {"tree", "treefail"})
         /\ Last(trace[e]) # "notindexed") =>
            /\ Count(trace[e], PollAnswers \ {"notindexed"}) <= 1
            /\ outcome[e] # "FailedToFindTx"

\* C10: a call whose SuiService.commit returned has the id of the commit
\* its transaction created, never an empty one.
C10_CommitIdNeverEmpty ==
    \A e \in Engines :
        (/\ op[e] \in {"commit", "init"}
         /\ pc[e] = "idle"
         /\ outcome[e] = "ok") =>
            versionId[e] # NoId

\* getVersion returned a VersionInfo
IsDecoded == view.op = "getVersion" /\ view.outcome = "ok"

\* C11: getVersion reads rootBlobId, parents, author, timestamp, message
\* and versionId in this order; for a well-formed VersionNode the
\* rootBlobId, parents, author, message and versionId it returns are the
\* encoded fields, and the cursor ends at the end of the buffer.
C11_FieldsRoundTrip ==
    (wire # NoWire /\ wire.whole /\ view # NoView) =>
        /\ IsDecoded
        /\ view.rootBlobId = Utf8Text(wire.rec.rootBlobId)
        /\ view.parents =
              [i \in DOMAIN wire.rec.parents |-> bytesToHex(wire.rec.parents[i])]
        /\ view.author = bytesToHex(wire.rec.author)
        /\ view.message = Utf8Text(wire.rec.message)
        /\ view.versionId = bytesToHex(wire.rec.versionId)
        /\ view.pos = Len(wire.bytes)

\* C12: the timestamp getVersion returns is the value of the 8 bytes at
\* the cursor position reached after the author field.
C12_TimestampAtCursor ==
    (wire # NoWire /\ IsDecoded) =>
        /\ view.timestamp =
              SubSeq(wire.bytes, view.timestampAt + 1, view.timestampAt + U64Width)
        /\ wire.whole => view.timestamp = wire.rec.timestamp

\* C13: decoding a VersionNode whose buffer ends before a declared length
\* is satisfied throws; getVersion returns no partly decoded record.
C13_TruncatedThrows ==
    (wire # NoWire /\ ~wire.whole /\ view # NoView) =>
        view.outcome = "DecodeFailed"

\* C13 witness: the buffer ended in the length prefix of the message, read
\* by a library build that takes the missing byte for 0, and getVersion
\* threw.
C13_Witness ==
    /\ wire # NoWire
    /\ ~wire.strict
    /\ Len(wire.bytes) = Len(EncodeVersionNode(wire.rec))
          - AddressWidth - Len(BcsString(wire.rec.message))
    /\ view # NoView
    /\ view.outcome = "DecodeFailed"

\* the history from commit v on through first parents, n commits at most
RECURSIVE FirstParentChain(_, _)
FirstParentChain(v, n) ==
    IF v = NoId \/ n = 0 THEN <<>>
    ELSE <<v>> \o FirstParentChain(
             IF versions[v].parents = <<>> THEN NoId ELSE versions[v].parents[1],
             n - 1)

LogReturned(e) ==
    /\ op[e] = "log"
    /\ pc[e] = "idle"
    /\ outcome[e] = "ok"
    /\ view # NoView
    /\ view.returned

C15_LogTruncates ==
    \A e \in Engines :
        (/\ op[e] = "log"
         /\ pc[e] = "idle"
         /\ Has(trace[e], {"version"})
         /\ Last(trace[e]) = "versionfail") =>
            /\ outcome[e] = "ok"
            /\ view.returned
            /\ Len(view.commits) = Count(trace[e], {"version"})

\* C16: after init and k successful commits on main by one engine,
\* log('main', n) with n >= k + 1 returns exactly the k + 1 commits, newest
\* first, and each commit after the root has exactly the commit before it
\* as its parents.
C16_LogAfterCommits ==
    (/\ LogReturned(1)
     /\ view.branch = "main"
     /\ view.limit >= Len(versions)) =>
        /\ view.visited = [i \in 1..Len(versions) |-> Len(versions) + 1 - i]
        /\ \A i \in 2..Len(versions) : versions[i].parents = <<i - 1>>

InitReturned(e) == op[e] = "init" /\ Idle(e) /\ outcome[e] = "ok"

\* C17: after init has returned successfully the ledger holds the new
\* repository with exactly one commit, which has no parents and the blob of
\* the serialized empty tree as its rootBlobId, and branch main points to it.
C17_InitLeavesRoot ==
    \A e \in Engines :
        InitReturned(e) =>
            /\ RepoExists(repoId[e])
            /\ \E v \in VersionsOf(repoId[e]) :
                  /\ VersionsOf(repoId[e]) = {v}
                  /\ versions[v].parents = <<>>
                  /\ versions[v].rootBlobId = TreeBlob(<<>>)
                  /\ BranchHead(repoId[e], "main") = v

\* C18: an init that comes to submit its root commit, and an init that has
\* returned successfully, hold the id of the new repository together with
\* that repository's capability.
C18_InitTargets ==
    \A e \in Engines :
        (op[e] = "init" /\ (pc[e] = "initCommit" \/ InitReturned(e))) =>
            /\ RepoExists(repoId[e])
            /\ capId[e] = CapOf(repoId[e])

\* C19: a commit called with an empty message or an empty list of files
\* fails with a validation error before any upload or ledger write: no such
\* commit is ever at work on an upload, a head read or a submit.
C19_EmptyCommitRejected ==
    \A e \in Engines :
        (op[e] = "commit" /\ ~Idle(e)) =>
            /\ call[e].files # <<>>
            /\ call[e].message # ""

\* the paths a tree holds
PathsOf(tree) == {tree[k].path : k \in DOMAIN tree}

\* a lookup that sees the tree's own entries only
OwnGet(tree, p) ==
    IF HasKey(tree, p)
    THEN LET k == CHOOSE k \in DOMAIN tree : tree[k].path = p
         IN [defined |-> TRUE, truthy |-> TRUE, type |-> tree[k].type,
             blobId |-> tree[k].blobId]
    ELSE Undefined

\* what a diff of two trees has to report
DiffExpected(treeA, treeB) ==
    {[path |-> p, kind |-> "added"] : p \in PathsOf(treeB) \ PathsOf(treeA)}
    \cup {[path |-> p, kind |-> "deleted"] : p \in PathsOf(treeA) \ PathsOf(treeB)}
    \cup {[path |-> p, kind |-> "modified"] :
            p \in {q \in PathsOf(treeA) \cap PathsOf(treeB) :
                      OwnGet(treeA, q).blobId # OwnGet(treeB, q).blobId}}

DiffReturned(e) ==
    /\ op[e] = "diff"
    /\ Idle(e)
    /\ outcome[e] = "ok"
    /\ view # NoView
    /\ view.returned

\* C20: diff(A, B) reports, over the union of the paths of both trees,
\* added for a path B alone holds, removed for a path A alone holds,
\* modified for a path both hold with different blob ids, and nothing for a
\* path both hold with the same blob id; each path once at most.
C20_DiffClassifies ==
    \A e \in Engines :
        DiffReturned(e) =>
            LET treeA == versions[view.version1].rootBlobId.entries
                treeB == versions[view.version2].rootBlobId.entries
            IN /\ {view.report[i] : i \in DOMAIN view.report} =
                     DiffExpected(treeA, treeB)
               /\ Len(view.report) = Cardinality(DiffExpected(treeA, treeB))

\* C21: diff(v, v), a commit compared with itself, reports no change,
\* whatever the tree of v holds.
C21_DiffSelfEmpty ==
    \A e \in Engines :
        (DiffReturned(e) /\ view.version1 = view.version2) =>
            view.report = <<>>

\* C21 witness: a commit whose tree holds every path of the model, among
\* them constructor, has been compared with itself.
C21_Witness ==
    /\ DiffReturned(1)
    /\ view.version1 = view.version2
    /\ Len(view.tree1) = Len(DiffPaths)
    /\ view.tree2 = view.tree1

\* new TextEncoder().encode(text): the UTF-8 bytes of code points
RECURSIVE Utf8Bytes(_)
Utf8Bytes(text) ==
    IF text = <<>> THEN <<>>
    ELSE LET c == Head(text) IN
         (IF c < 128 THEN <<c>>
          ELSE IF c < 2048 THEN <<192 + (c \div 64), 128 + (c % 64)>>
          ELSE <<224 + (c \div 4096), 128 + ((c \div 64) % 64), 128 + (c % 64)>>)
         \o Utf8Bytes(Tail(text))

\* the commit cat has to read: the given version, or the head of the branch
CatVersion == IF view.version # NoId THEN view.version
              ELSE BranchHead(repoId[1], view.branch)

CatTree == versions[CatVersion].rootBlobId.entries

\* the entry of the tree under filePath is a file with a blob id
CatIsFile ==
    \E k \in DOMAIN CatTree :
        /\ CatTree[k].path = view.filePath
        /\ CatTree[k].type = "file"
        /\ CatTree[k].blobId # NoBlob

\* cat has come to the end of a call in which it has got the tree
CatDone ==
    /\ op[1] = "cat"
    /\ Idle(1)
    /\ view # NoView
    /\ Has(trace[1], {"tree"})

\* C22: cat(path, v) fails with a not-found error, and downloads no file
\* blob, when path is no key of the tree of v or its entry is no file with a
\* blob id; otherwise what it returns is the content of the blob of that
\* entry; v is the given version or the head of the given branch.
C22_CatFindsOrFails ==
    CatDone =>
        /\ view.versionId = CatVersion
        /\ ~CatIsFile =>
              /\ outcome[1] = "NotFound"
              /\ ~Has(trace[1], {"file", "filefail"})
        /\ CatIsFile => outcome[1] \in {"ok", "ReadFailed"}
        /\ (CatIsFile /\ outcome[1] = "ok") =>
              \E k \in DOMAIN CatTree :
                  /\ CatTree[k].path = view.filePath
                  /\ Utf8Bytes(view.content) = CatTree[k].blobId.data

\* checkout has looked the target up as a branch name
CheckoutLooked(e) ==
    /\ op[e] = "checkout"
    /\ view # NoView
    /\ Has(trace[e], {"head", "headfail"})

\* C23: checkout(target) looks target up as a branch name first; when the
\* lookup succeeds it checks out the head of that branch, and when it fails
\* (no such branch, or the read failed) it takes target for the commit id.
C23_BranchFirst ==
    \A e \in Engines :
        CheckoutLooked(e) =>
            IF BranchHead(repoId[e], view.target) # NoId /\ trace[e][1] = "head"
            THEN view.versionId = BranchHead(repoId[e], view.target)
            ELSE view.versionId = IdOfTarget(view.target)

CheckoutReturned(e) ==
    /\ op[e] = "checkout"
    /\ Idle(e)
    /\ outcome[e] = "ok"
    /\ view # NoView
    /\ view.returned

\* C24: after checkout(target, destination) has completed successfully,
\* every file of the tree of the commit it checked out is at
\* destination/path with the content of the blob of its entry, whatever the
\* destination and the tree.
C24_CheckoutWritesAll ==
    \A e \in Engines :
        CheckoutReturned(e) =>
            \A k \in DOMAIN view.tree :
                (view.tree[k].type = "file" /\ view.tree[k].blobId # NoBlob) =>
                    [at |-> FullPath(view.outputDir, view.tree[k].path),
                     data |-> view.tree[k].blobId.data] \in view.disk

\* C25: checkout writes no file but those the tree of the commit names:
\* every file there was at the start of the call under a path the tree does
\* not name is still there unchanged, at every point of the call and
\* however it ends.
C25_CheckoutFrame ==
    \A e \in Engines :
        (op[e] = "checkout" /\ view # NoView) =>
            \A f \in view.before :
                (\A k \in DOMAIN view.tree :
                    f.at # FullPath(view.outputDir, view.tree[k].path)) =>
                        f \in view.disk

\* C25 witness: a checkout that failed after it had written over an old
\* file, with an old file the tree does not name next to it.
C25_Witness ==
    /\ op[1] = "checkout"
    /\ Idle(1)
    /\ outcome[1] = "ReadFailed"
    /\ Last(trace[1]) = "filefail"
    /\ [at |-> FullPath(DirOut, PathZ), data |-> DataOld] \in view.disk
    /\ [at |-> FullPath(DirOut, PathA), data |-> DataOld] \in view.before
    /\ [at |-> FullPath(DirOut, PathA), data |-> DataHi] \in view.disk

C27_NonRootHasParent ==
    [][\A e \in Engines :
          (pc[e] = "submit" /\ Lands(e)) => NewVersion.parents # <<>>]_vars

\* C28: each parent id the engine passes when it submits a commit is the id
\* of a commit the ledger holds at that moment in the engine's repository,
\* and every parent of every commit of the ledger was created before it: the
\* parent relation has no cycle.
C28_ParentsExist ==
    /\ \A e \in Engines :
          pc[e] = "submit" =>
             \A i \in DOMAIN SubmitArgs(e).parents :
                SubmitArgs(e).parents[i] \in VersionsOf(SubmitArgs(e).repoId)
    /\ \A v \in DOMAIN versions : \A i \in DOMAIN versions[v].parents :
          versions[v].parents[i] \in 1..(v - 1)

\* C28 witness: a commit is about to be submitted with the root commit as
\* its parent.
C28_Witness ==
    /\ pc[1] = "submit"
    /\ op[1] = "commit"
    /\ Len(versions) = 1
    /\ SubmitArgs(1).parents = <<1>>

\* C29: when a commit call's ledger commit is submitted and lands, the tree
\* blob the commit references is the one a successful tree upload of this
\* call returned, every file upload of the call was acknowledged before it,
\* and every blob id in the tree is the id the store returned for one of
\* the files of this call.
C29_TreeNamesUploads ==
    [][\A e \in Engines :
          (pc[e] = "submit" /\ Lands(e)) =>
             /\ NewVersion.rootBlobId = call[e].treeBlobId
             /\ NewVersion.rootBlobId.kind = "tree"
             /\ Count(trace[e], {"tree"}) = 1
             /\ ~Has(trace[e], {"filefail", "treefail"})
             /\ Count(trace[e], {"file"}) = Len(call[e].files)
             /\ \A i \in DOMAIN trace[e] :
                   trace[e][i] = "file" =>
                      \E j \in DOMAIN trace[e] : j > i /\ trace[e][j] = "tree"
             /\ \A k \in DOMAIN NewVersion.rootBlobId.entries :
                   \E i \in DOMAIN call[e].files :
                      /\ NewVersion.rootBlobId.entries[k].path = call[e].files[i].path
                      /\ NewVersion.rootBlobId.entries[k].blobId =
                            FileBlob(call[e].files[i].data)]_vars

\* C29 witness: a commit of two files has landed and its call has returned.
C29_Witness ==
    /\ op[1] = "commit"
    /\ Idle(1)
    /\ outcome[1] = "ok"
    /\ trace[1] = <<"file", "file", "tree", "head", "submit">>
    /\ Len(versions[Len(versions)].rootBlobId.entries) = 2

\* two entries of the list have the same path
HasDuplicate(files) ==
    \E i, j \in DOMAIN files : i # j /\ files[i].path = files[j].path

\* C30: building a tree from a list in which two entries have the same path
\* fails with a validation error, and no tree is built from such a list.
C30_DuplicatePathsRejected ==
    (/\ view # NoView
     /\ view.op = "buildDirectoryTree"
     /\ view.outcome # "none"
     /\ HasDuplicate(view.files)) =>
        /\ view.outcome = "ValidationError"
        /\ view.tree = <<>>

\* the list is not empty and no two of its entries have the same path
NonEmptyDistinct(files) == files # <<>> /\ ~HasDuplicate(files)

\* the round trip of a list of entries has returned
CodecReturned ==
    /\ view # NoView
    /\ view.op = "uploadDirectory"
    /\ view.outcome = "ok"

\* the parsed mapping holds the entry under its path, with the name taken
\* from the path, type 'file', and the entry's blob id and size
MapsEntry(parsed, file) ==
    \E k \in DOMAIN parsed :
       /\ parsed[k].key = file.path
       /\ parsed[k].value = [path |-> file.path, name |-> FileName(file.path),
                             type |-> "file", blobId |-> file.blobId,
                             size |-> file.size]

\* C31: for a non-empty list of entries with distinct paths, parsing the
\* stored text of the tree built from it gives a mapping whose keys are
\* exactly the entries' paths, each mapped to the entry of that path with
\* its name, type 'file', blob id and size.
C31_TreeRoundTrip ==
    (CodecReturned /\ NonEmptyDistinct(view.files)) =>
        /\ {view.parsed[k].key : k \in DOMAIN view.parsed}
              = {view.files[i].path : i \in DOMAIN view.files}
        /\ \A i \in DOMAIN view.files : MapsEntry(view.parsed, view.files[i])

\* a call of uploadFile is over
UploadOver == view # NoView /\ view.op = "uploadFile" /\ view.outcome # "none"

\* the answer is one the claim wants an error for
UploadMustFail(answer) ==
    \/ answer.transport = "fail"
    \/ answer.status \notin 200..299
    \/ ~answer.newlyCreated.present /\ ~answer.alreadyCertified.present

\* C32: uploadFile throws whenever the transport fails, the status is not
\* 2xx, or the body holds neither newlyCreated nor alreadyCertified; when it
\* returns, the id is newlyCreated.blobObject.blobId if newlyCreated is
\* there and alreadyCertified.blobId otherwise.
C32_UploadFailsOrNamesBlob ==
    UploadOver =>
        /\ UploadMustFail(view.answer) => view.outcome = "threw"
        /\ view.outcome = "ok" =>
              view.blobId = IF view.answer.newlyCreated.present
                            THEN view.answer.newlyCreated.blobId
                            ELSE view.answer.alreadyCertified.blobId

\* an answer 2xx holding both members with different ids has been returned
C32_Witness ==
    /\ UploadOver
    /\ view.outcome = "ok"
    /\ view.answer.newlyCreated.present
    /\ view.answer.alreadyCertified.present
    /\ view.answer.newlyCreated.blobId # view.answer.alreadyCertified.blobId

\* a decoder has been run on the return value of a read
Inspected(o) == view # NoView /\ view.op = o /\ view.outcome \in {"ok", "threw"}

\* the type tags parseDevInspectResult has a case for
HandledTypes == {TypeAddress, TypeId, TypeU64, TypeBool, TypeBytes}

\* C33: a return value whose type tag the decoder does not expect gives a
\* decode error and no value: getVersion throws for every type that is not
\* the VersionNode struct, parseDevInspectResult for every type tag it has
\* no case for.
C33_UnexpectedTypeThrows ==
    /\ (Inspected("getVersion") /\ wire.some /\ wire.moveType # TypeVersionNode)
          => view.outcome = "threw"
    /\ (Inspected("getBranchHead") /\ wire.some
        /\ wire.moveType \notin HandledTypes)
          => view.outcome = "threw"

\* C38: the bool decoder of a ledger read result gives true for every byte
\* that is not 0 and false only for the byte 0.
C38_BoolNonZeroIsTrue ==
    (/\ Inspected("getBranchHead")
     /\ wire.some
     /\ wire.moveType = TypeBool
     /\ Len(wire.bytes) = 1) =>
        /\ view.outcome = "ok"
        /\ view.result.kind = "bool"
        /\ view.result.flag = (wire.bytes[1] # 0)

\* the repository has a commit without parents
HasRoot(vs, r) ==
    \E v \in DOMAIN vs : vs[v].repo = r /\ vs[v].parents = <<>>

\* a step in which init throws after createRepository has returned: the
\* upload of the empty tree or the root commit fails
InitFailsLate(e) ==
    /\ op[e] = "init"
    /\ pc[e] \in {"initTree", "initCommit"}
    /\ pc'[e] = "idle"
    /\ outcome'[e] # "ok"

\* C34: when init fails after the repository was created, the engine holds
\* the repository id and capability it held before the call, and is not
\* left targeted at a repository without a root commit.
C34_FailedInitRestoresTarget ==
    [][\A e \in Engines :
          InitFailsLate(e) =>
             /\ repoId'[e] = call[e].target[1]
             /\ capId'[e] = call[e].target[2]
             /\ repoId'[e] # NoId => HasRoot(versions', repoId'[e])]_vars

\* the capability the engine holds is the one of the repository it holds.
\* Every setRepoIds of the model is given a repository and its own
\* capability, and createRepository answers with such a pair, so the two
\* ids were set by one call exactly if they belong together.
SetTogether(r, c) == c = CapOf(r)

\* a step in which the engine submits a ledger write
SubmitsWrite(e) ==
    /\ pc[e] \in {"initCommit", "submit"}
    /\ Last(trace'[e]) = "submit"
    /\ Len(trace'[e]) = Len(trace[e]) + 1

\* C35: whenever the engine is targeted, its capability was set by the same
\* init or setRepoIds call as its repository id, and no ledger write is
\* submitted with a repository id and a capability set for another
\* repository, or with none.
C35_CapabilityOfTarget ==
    [][\A e \in Engines :
          /\ Targeted(e) => SetTogether(repoId[e], capId[e])
          /\ SubmitsWrite(e) => SetTogether(repoId[e], capId[e])]_vars

\* the operations of the engine that only read
ReadOps == {"log", "cat", "diff", "status", "checkout"}

\* a step of a call of one of them: its start, one of its awaits, its
\* return or its throw
ReadStep(e) == op'[e] \in ReadOps

\* C36: log, cat, diff, status and checkout upload no blob, submit no
\* ledger write, and leave the engine's repository id and capability as
\* they were, whether they return or throw.
C36_ReadsWriteNothing ==
    [][\A e \in Engines :
          ReadStep(e) =>
             /\ call'[e].uploadedFiles = call[e].uploadedFiles
             /\ call'[e].treeBlobId = call[e].treeBlobId
             /\ repos' = repos
             /\ versions' = versions
             /\ repoId'[e] = repoId[e]
             /\ capId'[e] = capId[e]]_vars

\* a checkout of a targeted engine has returned after writing files, and
\* the engine holds the repository and capability it held
C36_Witness ==
    /\ view # NoView
    /\ view.op = "checkout"
    /\ op[1] = "checkout"
    /\ Idle(1)
    /\ outcome[1] = "ok"
    /\ view.disk # view.before
    /\ repoId[1] = 1
    /\ capId[1] = CapOf(1)

\* both loops have been left
LoopsDone == view # NoView /\ view.op = "logs" /\ view.node.done /\ view.frontend.done

====
